---- MODULE Spec2Model ----
(***************************************************************************)
(* Model of the SequentialSimulator of unified_planning                    *)
(* (engines/sequential_simulator.py): events, applicability, effect        *)
(* resolution with conflict detection and add-after-delete, bounded        *)
(* numeric types and simulated effects, the event cache and its            *)
(* iterators, the effect builders and the action classes of                *)
(* model/action.py, and the results of engines/results.py.                 *)
(***************************************************************************)
EXTENDS Integers, Sequences, FiniteSets, TLC

VARIABLES
    event,   \* the InstantaneousEvent under simulation
    states,  \* the COWStates held by the driver, oldest first (key -> value content)
    last,    \* the last simulator call: operation, argument, callback returns, outcome
    action,     \* the action under construction (model/action.py)
    simulator,  \* the simulator's fields _events and _all_events_grounded
    iterators   \* the generators returned by get_applicable_events, oldest first

vars == <<event, states, last, action, simulator, iterators>>

----------------------------------------------------------------------------
(* Bounds of the model *)

\* longest effect list of an event
MaxEffects == 3
\* number of successful transitions a driver performs
MaxDepth == 1
\* declared upper bound of the bounded fluent "counter"
CounterUpper == 2

\* declared lower bound of the bounded fluent "counter" (IntType(0))
CounterLower == 0

----------------------------------------------------------------------------
(* The problem: fluents and their types *)

Fluents == {"f", "counter", "bf", "c1", "c2", "c3"}

is_int_type(fl) == fl \in {"f", "counter"}

\* every other fluent of the problems is boolean
is_bool_type(fl) == ~is_int_type(fl)

has_lower_bound(fl) == fl = "counter"

has_upper_bound(fl) == fl = "counter"

lower_bound(fl) == CounterLower

upper_bound(fl) == CounterUpper

\* the initial values of the problem (default_initial_value)
InitialValues ==
    [fl \in Fluents |->
        CASE fl = "f" -> 0
          [] fl = "counter" -> 1
          [] fl \in {"c1", "c2", "c3"} -> TRUE
          [] OTHER -> FALSE]

----------------------------------------------------------------------------
(* Expressions (FNode) and their evaluation in a state *)

IntC(n) == [tag |-> "int", i |-> n, b |-> FALSE, name |-> ""]

BoolC(v) == [tag |-> "bool", i |-> 0, b |-> v, name |-> ""]

FluentExp(fl) == [tag |-> "fluent", i |-> 0, b |-> FALSE, name |-> fl]

\* em.LE(lower_bound, fluent): b = TRUE; em.LE(fluent, upper_bound): b = FALSE
LE(bound, fl, isLower) == [tag |-> "le", i |-> bound, b |-> isLower, name |-> fl]

TRUE_EXP == BoolC(TRUE)

\* StateEvaluator.evaluate on constants and fluent expressions
Evaluate(e, state) ==
    CASE e.tag = "int" -> e.i
      [] e.tag = "bool" -> e.b
      [] e.tag = "fluent" -> state[e.name]

----------------------------------------------------------------------------
(* Effects *)

Effect(fl, v, c, k) == [fluent |-> fl, value |-> v, condition |-> c, kind |-> k]

is_conditional(effect) == effect.condition # TRUE_EXP

is_assignment(effect) == effect.kind = "ASSIGN"

is_increase(effect) == effect.kind = "INCREASE"

is_decrease(effect) == effect.kind = "DECREASE"

----------------------------------------------------------------------------
(* Partial maps fluent -> value (Python dicts) *)

EmptyMap == <<>>

Has(m, k) == k \in DOMAIN m

Put(m, k, v) == [x \in (DOMAIN m) \cup {k} |-> IF x = k THEN v ELSE m[x]]

\* COWState.make_child: the child's lookup returns updates[f] if present, else the parent's
make_child(state, updated_values) ==
    [fl \in DOMAIN state |->
        IF Has(updated_values, fl) THEN updated_values[fl] ELSE state[fl]]

----------------------------------------------------------------------------
(* Conflict errors *)

Msg2Assign == "modified by 2 different assignments in the same event"

Msg1AssignIncDec == "modified by 1 assignments and an increase/decrease in the same event"

MsgAssignIncDec == "modified by an assignment and an increase/decrease in the same event"

MsgDifferentValues == "modified with different values in the same event"

Raise(fl, m) == [kind |-> "raise", fluent |-> fl, msg |-> m]

----------------------------------------------------------------------------
(* SequentialSimulator._evaluate_effect *)

\* (None, None): the effect contributes nothing
NoValue(assigned_fluent) == [kind |-> "none", assigned |-> assigned_fluent]

\* (fluent, value), with the set assigned_fluent as the call leaves it
Value(fl, v, assigned_fluent) ==
    [kind |-> "value", fluent |-> fl, value |-> v, assigned |-> assigned_fluent]

\* bug: the last assignment wins, no conflict is detected
EvaluateAssignmentLastWins(fluent, new_value, updated_values, assigned_fluent) ==
    Value(fluent, new_value, assigned_fluent \cup {fluent})

\* bug: a boolean clash is resolved by the later write instead of by True
EvaluateAssignmentBoolLastWins(fluent, new_value, updated_values, assigned_fluent) ==
    IF Has(updated_values, fluent) /\ new_value # updated_values[fluent]
    THEN IF ~is_bool_type(fluent)
         THEN Raise(fluent, Msg2Assign)
         ELSE Value(fluent, new_value, assigned_fluent)
    ELSE IF Has(updated_values, fluent) /\ fluent \notin assigned_fluent
         THEN Raise(fluent, Msg1AssignIncDec)
         ELSE Value(fluent, new_value, assigned_fluent \cup {fluent})

\* the assignment branch (sequential_simulator.py lines 274-295)
EvaluateAssignment(fluent, new_value, updated_values, assigned_fluent) ==
    IF Has(updated_values, fluent) /\ new_value # updated_values[fluent]
    THEN IF ~is_bool_type(fluent)
         THEN Raise(fluent, Msg2Assign)
         ELSE IF ~updated_values[fluent]
              THEN Value(fluent, new_value, assigned_fluent)
              ELSE NoValue(assigned_fluent)
    ELSE IF Has(updated_values, fluent) /\ fluent \notin assigned_fluent
         THEN Raise(fluent, Msg1AssignIncDec)
         ELSE Value(fluent, new_value, assigned_fluent \cup {fluent})

\* bug: an increase/decrease after an assignment is not detected
EvaluateIncDecUnchecked(effect, fluent, new_value, state, updated_values, assigned_fluent) ==
    LET f_eval == IF Has(updated_values, fluent)
                  THEN updated_values[fluent]
                  ELSE Evaluate(FluentExp(fluent), state)
    IN IF is_increase(effect)
       THEN Value(fluent, f_eval + new_value, assigned_fluent)
       ELSE Value(fluent, f_eval - new_value, assigned_fluent)

\* bug: every increase/decrease starts from the value in the state
EvaluateIncDecFromState(effect, fluent, new_value, state, updated_values, assigned_fluent) ==
    IF fluent \in assigned_fluent
    THEN Raise(fluent, MsgAssignIncDec)
    ELSE LET f_eval == Evaluate(FluentExp(fluent), state)
         IN IF is_increase(effect)
            THEN Value(fluent, f_eval + new_value, assigned_fluent)
            ELSE Value(fluent, f_eval - new_value, assigned_fluent)

\* the increase/decrease branch (lines 296-319)
EvaluateIncDec(effect, fluent, new_value, state, updated_values, assigned_fluent) ==
    IF fluent \in assigned_fluent
    THEN Raise(fluent, MsgAssignIncDec)
    ELSE LET f_eval == IF Has(updated_values, fluent)
                       THEN updated_values[fluent]
                       ELSE Evaluate(FluentExp(fluent), state)
         IN IF is_increase(effect)
            THEN Value(fluent, f_eval + new_value, assigned_fluent)
            ELSE Value(fluent, f_eval - new_value, assigned_fluent)

\* bug: the condition of a conditional effect is not looked at
EffectAlwaysFires(effect, state) == TRUE

\* whether the effect is evaluated at all (line 270)
EffectFires(effect, state) ==
    (~is_conditional(effect)) \/ Evaluate(effect.condition, state) = TRUE

EvaluateEffect(effect, state, updated_values, assigned_fluent) ==
    LET fluent == effect.fluent
    IN IF EffectFires(effect, state)
       THEN LET new_value == Evaluate(effect.value, state)
            IN IF is_assignment(effect)
               THEN EvaluateAssignment(fluent, new_value, updated_values, assigned_fluent)
               ELSE EvaluateIncDec(effect, fluent, new_value, state,
                                   updated_values, assigned_fluent)
       ELSE NoValue(assigned_fluent)

----------------------------------------------------------------------------
(* Simulated effects *)

\* an event without simulated effect (simulated_effect is None)
NoSimulatedEffect == [fluents |-> <<>>, function |-> "None"]

SimulatedEffect(fls, fn) == [fluents |-> fls, function |-> fn]

HasSimulatedEffect(ev) == ev.simulated_effect.function # "None"

----------------------------------------------------------------------------
(* SequentialSimulator._apply_unsafe *)

\* bug: the loop returns after the first effect
ApplyEffectsFirstOnly(effects, i, state, updated_values, assigned_fluent) ==
    IF effects = <<>>
    THEN [kind |-> "ok", updated |-> updated_values, assigned |-> assigned_fluent]
    ELSE LET r == EvaluateEffect(effects[1], state, updated_values, assigned_fluent)
         IN CASE r.kind = "raise" -> r
              [] r.kind = "none" ->
                    [kind |-> "ok", updated |-> updated_values, assigned |-> r.assigned]
              [] r.kind = "value" ->
                    [kind |-> "ok", updated |-> Put(updated_values, r.fluent, r.value),
                     assigned |-> r.assigned]

\* the loop over event.effects (lines 209-215)
RECURSIVE ApplyEffects(_, _, _, _, _)
ApplyEffects(effects, i, state, updated_values, assigned_fluent) ==
    IF i > Len(effects)
    THEN [kind |-> "ok", updated |-> updated_values, assigned |-> assigned_fluent]
    ELSE LET r == EvaluateEffect(effects[i], state, updated_values, assigned_fluent)
         IN CASE r.kind = "raise" -> r
              [] r.kind = "none" ->
                    ApplyEffects(effects, i + 1, state, updated_values, r.assigned)
              [] r.kind = "value" ->
                    ApplyEffects(effects, i + 1, state,
                                 Put(updated_values, r.fluent, r.value), r.assigned)

\* bug: a returned boolean value replaces the value the effects resolved
MergeSimulatedLastWins(f, v, updated_values, assigned_fluent) ==
    IF Has(updated_values, f)
       /\ (f \notin assigned_fluent \/ updated_values[f] # v)
       /\ ~is_bool_type(f)
    THEN Raise(f, MsgDifferentValues)
    ELSE [kind |-> "ok", updated |-> Put(updated_values, f, v)]

\* the merge of one returned value (lines 221-236)
MergeSimulated(f, v, updated_values, assigned_fluent) ==
    IF Has(updated_values, f)
       /\ (f \notin assigned_fluent \/ updated_values[f] # v)
    THEN IF ~is_bool_type(f)
         THEN Raise(f, MsgDifferentValues)
         ELSE IF ~updated_values[f]
              THEN [kind |-> "ok", updated |-> Put(updated_values, f, v)]
              ELSE [kind |-> "ok", updated |-> updated_values]
    ELSE [kind |-> "ok", updated |-> Put(updated_values, f, v)]

\* the loop over zip(simulated_effect.fluents, returned values) (lines 217-236)
RECURSIVE ApplySimulated(_, _, _, _, _)
ApplySimulated(fluents, values, i, updated_values, assigned_fluent) ==
    IF i > Len(fluents) \/ i > Len(values)
    THEN [kind |-> "ok", updated |-> updated_values]
    ELSE LET r == MergeSimulated(fluents[i], values[i], updated_values, assigned_fluent)
         IN IF r.kind = "raise"
            THEN r
            ELSE ApplySimulated(fluents, values, i + 1, r.updated, assigned_fluent)

\* the updates _apply_unsafe computes, or the error it raises; `returned` is what
\* the simulated effect's function returns on this call
ResolveUpdates(ev, state, returned) ==
    LET r == ApplyEffects(ev.effects, 1, state, EmptyMap, {})
    IN IF r.kind = "raise"
       THEN r
       ELSE IF HasSimulatedEffect(ev)
            THEN ApplySimulated(ev.simulated_effect.fluents, returned, 1,
                                r.updated, r.assigned)
            ELSE [kind |-> "ok", updated |-> r.updated]

StateResult(s) == [kind |-> "state", values |-> s]

\* bug: the child is made from the problem's initial values, not from the state
ApplyUnsafeFromInitial(ev, state, returned) ==
    LET r == ResolveUpdates(ev, state, returned)
    IN IF r.kind = "raise"
       THEN r
       ELSE StateResult(make_child(InitialValues, r.updated))

\* bug: the updates are resolved in the state the previous apply_unsafe returned
ApplyUnsafeReadingLast(ev, state, returned) ==
    LET seen == IF last.op = "apply_unsafe" /\ last.res.kind = "state"
                THEN last.res.values
                ELSE state
        r == ResolveUpdates(ev, seen, returned)
    IN IF r.kind = "raise"
       THEN r
       ELSE StateResult(make_child(seen, r.updated))

ApplyUnsafe(ev, state, returned) ==
    LET r == ResolveUpdates(ev, state, returned)
    IN IF r.kind = "raise"
       THEN r
       ELSE StateResult(make_child(state, r.updated))

----------------------------------------------------------------------------
(* SequentialSimulator._get_unsatisfied_conditions *)

\* the loop over event.conditions (lines 100-108)
RECURSIVE UnsatisfiedOf(_, _, _, _, _)
UnsatisfiedOf(conditions, i, state, early_termination, unsatisfied_conditions) ==
    IF i > Len(conditions)
    THEN unsatisfied_conditions
    ELSE IF Evaluate(conditions[i], state) # TRUE
         THEN IF early_termination
              THEN Append(unsatisfied_conditions, conditions[i])
              ELSE UnsatisfiedOf(conditions, i + 1, state, early_termination,
                                 Append(unsatisfied_conditions, conditions[i]))
         ELSE UnsatisfiedOf(conditions, i + 1, state, early_termination,
                            unsatisfied_conditions)

\* lower_bound is not None or upper_bound is not None, for a numeric type (lines 115-119)
IsBounded(fl) == is_int_type(fl) /\ (has_lower_bound(fl) \/ has_upper_bound(fl))

BelowLower(fl, v) == has_lower_bound(fl) /\ lower_bound(fl) > v

AboveUpper(fl, v) == has_upper_bound(fl) /\ upper_bound(fl) < v

\* the two bound tests on one value, with their breaks (lines 126-137 and 160-173):
\* the list after the tests, and whether the enclosing loop is left
BoundTests(fl, v, early_termination, unsatisfied_conditions) ==
    LET u1 == IF BelowLower(fl, v)
              THEN Append(unsatisfied_conditions, LE(lower_bound(fl), fl, TRUE))
              ELSE unsatisfied_conditions
    IN IF BelowLower(fl, v) /\ early_termination
       THEN [list |-> u1, break |-> TRUE]
       ELSE IF AboveUpper(fl, v)
            THEN [list |-> Append(u1, LE(upper_bound(fl), fl, FALSE)),
                  break |-> early_termination]
            ELSE [list |-> u1, break |-> FALSE]

\* the loop over event.effects that checks the bounded types (lines 111-137)
RECURSIVE CheckBoundedEffects(_, _, _, _, _, _, _)
CheckBoundedEffects(effects, i, state, early_termination, new_bounded_types_values, assigned_fluent, unsatisfied_conditions) ==
    IF i > Len(effects)
    THEN [kind |-> "ok", list |-> unsatisfied_conditions]
    ELSE IF ~IsBounded(effects[i].fluent)
         THEN CheckBoundedEffects(effects, i + 1, state, early_termination,
                                  new_bounded_types_values, assigned_fluent,
                                  unsatisfied_conditions)
         ELSE LET r == EvaluateEffect(effects[i], state,
                                      new_bounded_types_values, assigned_fluent)
              IN CASE r.kind = "raise" -> r
                   [] r.kind = "none" ->
                        CheckBoundedEffects(effects, i + 1, state, early_termination,
                                            new_bounded_types_values, r.assigned,
                                            unsatisfied_conditions)
                   [] r.kind = "value" ->
                        LET t == BoundTests(r.fluent, r.value, early_termination,
                                            unsatisfied_conditions)
                        IN IF t.break
                           THEN [kind |-> "ok", list |-> t.list]
                           ELSE CheckBoundedEffects(
                                    effects, i + 1, state, early_termination,
                                    Put(new_bounded_types_values, r.fluent, r.value),
                                    r.assigned, t.list)

\* to_check: some fluent of the simulated effect has a bounded type (lines 139-146)
ToCheck(ev) ==
    HasSimulatedEffect(ev)
    /\ \E i \in 1..Len(ev.simulated_effect.fluents) :
          IsBounded(ev.simulated_effect.fluents[i])

\* the loop over zip(simulated_effect.fluents, returned values) (lines 148-173)
RECURSIVE CheckSimulated(_, _, _, _, _)
CheckSimulated(fluents, values, i, early_termination, unsatisfied_conditions) ==
    IF i > Len(fluents) \/ i > Len(values)
    THEN unsatisfied_conditions
    ELSE IF ~IsBounded(fluents[i])
         THEN CheckSimulated(fluents, values, i + 1, early_termination,
                             unsatisfied_conditions)
         ELSE LET t == BoundTests(fluents[i], values[i], early_termination,
                                  unsatisfied_conditions)
              IN IF t.break
                 THEN t.list
                 ELSE CheckSimulated(fluents, values, i + 1, early_termination, t.list)

\* the list _get_unsatisfied_conditions returns, or the error it raises; `returned`
\* is what the simulated effect's function returns if this call invokes it
GetUnsatisfiedConditions(ev, state, early_termination, returned) ==
    LET conds == UnsatisfiedOf(ev.conditions, 1, state, early_termination, <<>>)
        r == CheckBoundedEffects(ev.effects, 1, state, early_termination,
                                 EmptyMap, {}, conds)
    IN IF r.kind = "raise"
       THEN r
       ELSE IF ToCheck(ev)
            THEN [kind |-> "list",
                  list |-> CheckSimulated(ev.simulated_effect.fluents, returned, 1,
                                          early_termination, r.list)]
            ELSE [kind |-> "list", list |-> r.list]

----------------------------------------------------------------------------
(* SimulatorMixin.is_applicable and SequentialSimulator._apply *)

\* is_applicable: no unsatisfied condition, asked with early termination
IsApplicable(ev, state, returned) ==
    LET r == GetUnsatisfiedConditions(ev, state, TRUE, returned)
    IN IF r.kind = "raise"
       THEN r
       ELSE [kind |-> "bool", value |-> (r.list = <<>>)]

NoneResult == [kind |-> "none"]

\* bug: the applicability check is skipped
ApplyUnguarded(ev, state, returned1, returned2) == ApplyUnsafe(ev, state, returned2)

\* _apply (lines 189-192); returned1 and returned2 are what the simulated effect's
\* function returns to the applicability check and to _apply_unsafe
Apply(ev, state, returned1, returned2) ==
    LET a == IsApplicable(ev, state, returned1)
    IN IF a.kind = "raise"
       THEN a
       ELSE IF ~a.value
            THEN NoneResult
            ELSE ApplyUnsafe(ev, state, returned2)

----------------------------------------------------------------------------
(* Goals *)

\* the goals of the problem (problem.add_goal)
Goals == <<FluentExp("bf"), FluentExp("c1")>>

\* bug: the flag is ignored, every unsatisfied goal is returned
UnsatisfiedGoalsIgnoringFlag(goals, i, state, early_termination, unsatisfied_goals) ==
    SelectSeq(goals, LAMBDA g : Evaluate(g, state) = FALSE)

\* _get_unsatisfied_goals (lines 393-400)
RECURSIVE UnsatisfiedGoalsOf(_, _, _, _, _)
UnsatisfiedGoalsOf(goals, i, state, early_termination, unsatisfied_goals) ==
    IF i > Len(goals)
    THEN unsatisfied_goals
    ELSE IF ~Evaluate(goals[i], state)
         THEN IF early_termination
              THEN Append(unsatisfied_goals, goals[i])
              ELSE UnsatisfiedGoalsOf(goals, i + 1, state, early_termination,
                                      Append(unsatisfied_goals, goals[i]))
         ELSE UnsatisfiedGoalsOf(goals, i + 1, state, early_termination,
                                 unsatisfied_goals)

GetUnsatisfiedGoals(state, early_termination) ==
    UnsatisfiedGoalsOf(Goals, 1, state, early_termination, <<>>)

\* is_goal: no unsatisfied goal, asked with early termination
IsGoal(state) == GetUnsatisfiedGoals(state, TRUE) = <<>>

----------------------------------------------------------------------------
(* The callbacks of simulated effects: a black box that may consult an RNG *)

\* values the sampling callback may return for a fluent
Sampled(fl) ==
    IF is_bool_type(fl)
    THEN BOOLEAN
    ELSE {CounterLower - 1, CounterLower, CounterUpper + 1}

\* the deterministic callback: one step down for a number, negation for a boolean
Drained(fl, state) == IF is_bool_type(fl) THEN ~state[fl] ELSE state[fl] - 1

\* every list of one sampled value per listed fluent, in list order
RECURSIVE SampledLists(_, _)
SampledLists(fluents, i) ==
    IF i > Len(fluents)
    THEN {<<>>}
    ELSE {<<v>> \o rest : v \in Sampled(fluents[i]), rest \in SampledLists(fluents, i + 1)}

\* every list a call function(problem, state, {}) may return
Returns(se, state) ==
    IF se.function = "drain"
    THEN {[i \in 1..Len(se.fluents) |-> Drained(se.fluents[i], state)]}
    ELSE SampledLists(se.fluents, 1)

----------------------------------------------------------------------------
(* The events the driver simulates *)

Event(conds, effs, se) == [conditions |-> conds, effects |-> effs, simulated_effect |-> se]

\* every list of at most n elements of S
RECURSIVE ListsUpTo(_, _)
ListsUpTo(S, n) ==
    IF n = 0
    THEN {<<>>}
    ELSE ListsUpTo(S, n - 1)
         \cup {Append(l, x) : l \in {m \in ListsUpTo(S, n - 1) : Len(m) = n - 1}, x \in S}

\* effects on the unbounded integer fluent, as in test_exceptions
IntEffects ==
    { Effect("f", IntC(5), FluentExp("c1"), "ASSIGN"),
      Effect("f", IntC(6), FluentExp("c2"), "ASSIGN"),
      Effect("f", IntC(5), FluentExp("c3"), "INCREASE"),
      Effect("f", FluentExp("f"), TRUE_EXP, "INCREASE"),
      Effect("f", IntC(1), TRUE_EXP, "DECREASE") }

\* effects on the bounded counter, as in test_bounded_types
CounterEffects ==
    { Effect("counter", IntC(1), TRUE_EXP, "DECREASE"),
      Effect("counter", IntC(2), TRUE_EXP, "INCREASE"),
      Effect("counter", IntC(2), FluentExp("c2"), "ASSIGN") }

\* effects on the boolean fluent, as in test_add_after_delete, beside integer ones
BoolEffects ==
    { Effect("bf", BoolC(TRUE), TRUE_EXP, "ASSIGN"),
      Effect("bf", BoolC(FALSE), TRUE_EXP, "ASSIGN"),
      Effect("bf", BoolC(FALSE), FluentExp("c1"), "ASSIGN"),
      Effect("f", IntC(5), TRUE_EXP, "ASSIGN"),
      Effect("f", IntC(6), FluentExp("c2"), "ASSIGN") }

ConditionLists ==
    { <<>>, <<FluentExp("c1")>>, <<FluentExp("c1"), FluentExp("c2")>> }

CounterSimulated ==
    { NoSimulatedEffect,
      SimulatedEffect(<<"counter">>, "sample"),
      SimulatedEffect(<<"counter">>, "drain") }

BoolSimulated ==
    { NoSimulatedEffect,
      SimulatedEffect(<<"bf">>, "sample"),
      SimulatedEffect(<<"f", "bf">>, "drain") }

Events ==
    {Event(c, l, NoSimulatedEffect) : c \in ConditionLists,
                                      l \in ListsUpTo(IntEffects, MaxEffects)}
    \cup {Event(c, l, se) : c \in ConditionLists,
                            l \in ListsUpTo(CounterEffects, MaxEffects),
                            se \in CounterSimulated}
    \cup {Event(<<>>, l, se) : l \in ListsUpTo(BoolEffects, MaxEffects),
                               se \in BoolSimulated}

\* the fluents an expression reads
FluentsOf(e) == IF e.tag = "fluent" THEN {e.name} ELSE {}

\* the fluents whose value in the state an event reads: those of its conditions,
\* of its effects' conditions and values, the targets of its increases and
\* decreases, and those its deterministic callback looks up
Reads(ev) ==
    UNION {FluentsOf(ev.conditions[i]) : i \in 1..Len(ev.conditions)}
    \cup UNION {FluentsOf(ev.effects[i].value) \cup FluentsOf(ev.effects[i].condition)
                    \cup (IF is_assignment(ev.effects[i]) THEN {} ELSE {ev.effects[i].fluent})
                : i \in 1..Len(ev.effects)}
    \cup (IF ev.simulated_effect.function = "drain"
          THEN {ev.simulated_effect.fluents[i] : i \in 1..Len(ev.simulated_effect.fluents)}
          ELSE {})

\* values a fluent may hold in a state given to the simulator
ValuesOf(fl) ==
    CASE fl = "f" -> {0, 1}
      [] fl = "counter" -> CounterLower..CounterUpper
      [] OTHER -> BOOLEAN

\* the states an event is first simulated in: any value for the fluents it
\* reads, the problem's initial value for the others
StartStates(ev) ==
    LET M == Reads(ev)
        Choices(fl) == IF fl \in M THEN ValuesOf(fl) ELSE {InitialValues[fl]}
    IN {[fl \in Fluents |->
            CASE fl = "f" -> a
              [] fl = "counter" -> b
              [] fl = "bf" -> c
              [] fl = "c1" -> d
              [] fl = "c2" -> e
              [] OTHER -> g] :
          a \in Choices("f"), b \in Choices("counter"), c \in Choices("bf"),
          d \in Choices("c1"), e \in Choices("c2"), g \in Choices("c3")}

----------------------------------------------------------------------------
(* The driver: one event, simulated from a start state *)

NoCall == [op |-> "none", arg |-> 0, returned1 |-> <<>>, returned2 |-> <<>>,
           calls |-> 0, res |-> NoneResult]

\* no action is under construction
NoAction == [name |-> "none"]

\* the fields of a simulator whose cache is not in use
NoSimulator == [name |-> "none"]

Init ==
    /\ event \in Events
    /\ \E s \in StartStates(event) : states = <<s>>
    /\ last = NoCall
    /\ action = NoAction
    /\ simulator = NoSimulator
    /\ iterators = <<>>

\* what the function returns to the applicability check, if invoked there
CheckReturns(ev, state) ==
    IF ToCheck(ev) THEN Returns(ev.simulated_effect, state) ELSE {<<>>}

\* what the function returns to _apply_unsafe, if invoked there
UnsafeReturns(ev, state) ==
    IF HasSimulatedEffect(ev)
       /\ ApplyEffects(ev.effects, 1, state, EmptyMap, {}).kind # "raise"
    THEN Returns(ev.simulated_effect, state)
    ELSE {<<>>}

Count(b) == IF b THEN 1 ELSE 0

\* bug: the updates are written into the given state, which is returned
HeldInPlace(held, i, res) ==
    IF res.kind = "state"
    THEN Append([held EXCEPT ![i] = res.values], res.values)
    ELSE held

\* the states the driver holds after a call: a returned state is a new object,
\* the given state is left as it was
Held(held, i, res) ==
    IF res.kind = "state" THEN Append(held, res.values) ELSE held

DoIsApplicable ==
    LET i == Len(states)
    IN \E r1 \in CheckReturns(event, states[i]) :
        /\ last' = [op |-> "is_applicable", arg |-> i, returned1 |-> r1,
                    returned2 |-> <<>>, calls |-> Count(ToCheck(event)),
                    res |-> IsApplicable(event, states[i], r1)]
        /\ UNCHANGED <<event, states, action, simulator, iterators>>

DoApply ==
    LET i == Len(states)
    IN /\ \E r1 \in CheckReturns(event, states[i]) :
            LET a == IsApplicable(event, states[i], r1)
                reached == a.kind = "bool" /\ a.value
            IN \E r2 \in (IF reached THEN UnsafeReturns(event, states[i]) ELSE {<<>>}) :
                LET res == Apply(event, states[i], r1, r2)
                IN /\ last' = [op |-> "apply", arg |-> i, returned1 |-> r1,
                               returned2 |-> r2,
                               calls |-> Count(ToCheck(event))
                                         + Count(reached /\ r2 # <<>>),
                               res |-> res]
                   /\ states' = Held(states, i, res)
                   /\ Len(states') <= MaxDepth + 1
                   /\ UNCHANGED <<event, action, simulator, iterators>>

DoApplyUnsafe ==
    LET i == Len(states)
    IN /\ \E r2 \in UnsafeReturns(event, states[i]) :
            LET res == ApplyUnsafe(event, states[i], r2)
            IN /\ last' = [op |-> "apply_unsafe", arg |-> i, returned1 |-> <<>>,
                           returned2 |-> r2, calls |-> Count(r2 # <<>>), res |-> res]
               /\ states' = Held(states, i, res)
               /\ Len(states') <= MaxDepth + 1
               /\ UNCHANGED <<event, action, simulator, iterators>>

DoIsGoal ==
    LET i == Len(states)
    IN /\ last' = [op |-> "is_goal", arg |-> i, returned1 |-> <<>>, returned2 |-> <<>>,
                   calls |-> 0, res |-> [kind |-> "bool", value |-> IsGoal(states[i])]]
       /\ UNCHANGED <<event, states, action, simulator, iterators>>

Next == DoIsApplicable \/ DoApply \/ DoApplyUnsafe \/ DoIsGoal

Spec == Init /\ [][Next]_vars

----------------------------------------------------------------------------
(* Vocabulary of the properties *)

\* the state the last call was given
Given == states[last.arg]

Applied == last.op \in {"apply", "apply_unsafe"}

Raised == last.res.kind = "raise"

Returned == last.res.kind = "state"

\* an effect is active in a state when it is unconditional or its condition holds there
Active(effect, state) ==
    effect.condition = TRUE_EXP \/ Evaluate(effect.condition, state) = TRUE

\* the positions of the active effects of kind k on fluent fl
ActiveOn(ev, state, fl, kinds) ==
    {i \in 1..Len(ev.effects) :
        /\ ev.effects[i].fluent = fl
        /\ ev.effects[i].kind \in kinds
        /\ Active(ev.effects[i], state)}

\* the values the active assignments of the event write to fl
AssignedValues(ev, state, fl) ==
    {Evaluate(ev.effects[i].value, state) : i \in ActiveOn(ev, state, fl, {"ASSIGN"})}

IncDec == {"INCREASE", "DECREASE"}

\* some condition of the event is false in the state
SomeConditionFalse(ev, state) ==
    \E i \in 1..Len(ev.conditions) : Evaluate(ev.conditions[i], state) # TRUE

\* is_applicable, as the last apply asked it, answered false
AnsweredInapplicable ==
    LET a == IsApplicable(event, Given, last.returned1)
    IN a.kind = "bool" /\ ~a.value

WithinBounds(state) ==
    \A fl \in Fluents :
        IsBounded(fl) => ~BelowLower(fl, state[fl]) /\ ~AboveUpper(fl, state[fl])

----------------------------------------------------------------------------
(* C1 *)

\* C1: apply(e, s) returns None when is_applicable(e, s) is false, and otherwise
\* returns exactly what apply_unsafe(e, s) returns.
C1_ApplyIsGuardedApplyUnsafe ==
    last.op = "apply" =>
        LET a == IsApplicable(event, Given, last.returned1)
        IN /\ (a.kind = "bool" /\ ~a.value) => last.res = NoneResult
           /\ (a.kind = "bool" /\ a.value) =>
                 last.res = ApplyUnsafe(event, Given, last.returned2)

\* an apply of an applicable event that returned a state unlike the given one
C1_Witness ==
    /\ last.op = "apply"
    /\ Returned
    /\ last.res.values # Given
    /\ IsApplicable(event, Given, last.returned1) = [kind |-> "bool", value |-> TRUE]

----------------------------------------------------------------------------
(* C2 *)

\* C2: from a state with every bounded numeric fluent within its bounds, every
\* state returned by apply has every bounded numeric fluent within its bounds,
\* also when a simulated effect's function returns different values on
\* different calls.
C2_AppliedStatesWithinBounds ==
    (last.op = "apply" /\ Returned /\ WithinBounds(Given))
        => WithinBounds(last.res.values)

----------------------------------------------------------------------------
(* C3 *)

\* two active assignments of the event write different values to one non-boolean fluent
TwoDifferentAssignments(ev, state) ==
    \E fl \in Fluents :
        ~is_bool_type(fl) /\ Cardinality(AssignedValues(ev, state, fl)) >= 2

\* some increase or decrease of the event is active in the state
SomeActiveIncDec(ev, state) ==
    \E fl \in Fluents : ActiveOn(ev, state, fl, IncDec) # {}

----------------------------------------------------------------------------
(* C4 *)

\* C4: add-after-delete: when the active assignments of an event write both True
\* and False to one boolean fluent, these writes raise no conflict error, and the
\* fluent is True in the state apply / apply_unsafe returns, in every order and
\* for every number of the writes.
C4_AddAfterDelete ==
    \A fl \in Fluents :
        (Applied /\ is_bool_type(fl) /\ AssignedValues(event, Given, fl) = BOOLEAN) =>
            /\ Raised => last.res.fluent # fl
            /\ Returned => last.res.values[fl] = TRUE

\* test_add_after_delete: bf := True then bf := False, applied where bf is False
C4_Witness ==
    /\ last.op = "apply_unsafe"
    /\ event.effects = << Effect("bf", BoolC(TRUE), TRUE_EXP, "ASSIGN"),
                          Effect("bf", BoolC(FALSE), TRUE_EXP, "ASSIGN") >>
    /\ ~HasSimulatedEffect(event)
    /\ Given["bf"] = FALSE
    /\ Returned
    /\ last.res.values["bf"] = TRUE

----------------------------------------------------------------------------
(* C5 *)

\* an assignment and an increase or decrease of the event, both active, on one fluent
AssignmentAndIncDec(ev, state) ==
    \E fl \in Fluents :
        /\ ActiveOn(ev, state, fl, {"ASSIGN"}) # {}
        /\ ActiveOn(ev, state, fl, IncDec) # {}

\* C5 as stated: with an active assignment and an active increase/decrease on
\* one fluent, apply and apply_unsafe raise a conflicting-effects error.
C5_AsStated ==
    (Applied /\ AssignmentAndIncDec(event, Given)) => Raised

\* C5 as amended: with an active assignment and an active increase/decrease on
\* one fluent, apply_unsafe raises a conflicting-effects error, whichever effect
\* comes first and whatever the values; apply does the same unless
\* is_applicable is false, when it returns None.
C5_AssignmentIncDecConflict ==
    (Applied /\ AssignmentAndIncDec(event, Given)) =>
        /\ last.op = "apply_unsafe" => Raised
        /\ last.op = "apply" =>
              (Raised \/ (last.res = NoneResult /\ AnsweredInapplicable))

\* the increase comes first and the assigned value equals the increased one
C5_Witness ==
    /\ last.op = "apply"
    /\ event.effects = << Effect("f", IntC(5), FluentExp("c3"), "INCREASE"),
                          Effect("f", IntC(5), FluentExp("c1"), "ASSIGN") >>
    /\ Given["f"] = 0
    /\ AssignmentAndIncDec(event, Given)
    /\ last.res = Raise("f", Msg1AssignIncDec)

----------------------------------------------------------------------------
(* C6 *)

\* C6: no simulator call changes the content of a state obtained before: every
\* held state keeps the value of every fluent, whatever the call returns or
\* raises.
C6_StatesImmutable ==
    [][/\ Len(states') >= Len(states)
       /\ \A i \in 1..Len(states) : states'[i] = states[i]]_vars

\* a transition produced a state of other content and the given state is as it was
C6_Witness ==
    /\ Applied
    /\ Returned
    /\ Len(states) = last.arg + 1
    /\ states[Len(states)] = last.res.values
    /\ Given # last.res.values
    /\ \E s \in StartStates(event) : Given = s

\* an apply raised a conflict error and the given state is as it was
C6_WitnessRaised ==
    /\ last.op = "apply"
    /\ Raised
    /\ Len(states) = 1
    /\ \E s \in StartStates(event) : Given = s

----------------------------------------------------------------------------
(* C7 *)

\* the value the effects alone resolve for a bounded fluent is out of its bounds,
\* or the value the callback returned for one is
SomeBoundViolated(ev, state, returned) ==
    LET r == ApplyEffects(ev.effects, 1, state, EmptyMap, {})
    IN \/ /\ r.kind = "ok"
          /\ \E fl \in DOMAIN r.updated :
                IsBounded(fl) /\ (BelowLower(fl, r.updated[fl]) \/ AboveUpper(fl, r.updated[fl]))
       \/ /\ ToCheck(ev)
          /\ \E i \in 1..Len(returned) :
                LET fl == ev.simulated_effect.fluents[i]
                IN IsBounded(fl) /\ (BelowLower(fl, returned[i]) \/ AboveUpper(fl, returned[i]))

\* C7: when some condition of the event is false or some bounded fluent's result
\* is out of bounds, is_applicable returns false and apply returns None, without
\* raising, whatever the effects of the event are.
C7_InapplicabilityNeverRaises ==
    (/\ last.op \in {"is_applicable", "apply"}
     /\ (SomeConditionFalse(event, Given)
         \/ SomeBoundViolated(event, Given, last.returned1)))
        => IF last.op = "apply"
           THEN last.res = NoneResult
           ELSE last.res = [kind |-> "bool", value |-> FALSE]

----------------------------------------------------------------------------
(* C8 *)

RECURSIVE ActiveEffects(_, _, _)
ActiveEffects(effects, i, state) ==
    IF i > Len(effects)
    THEN <<>>
    ELSE IF Active(effects[i], state)
         THEN <<effects[i]>> \o ActiveEffects(effects, i + 1, state)
         ELSE ActiveEffects(effects, i + 1, state)

\* the event without the effects whose condition is false in the state
Pruned(ev, state) == [ev EXCEPT !.effects = ActiveEffects(ev.effects, 1, state)]

\* C8: a conditional effect whose condition is false in the state contributes
\* nothing: is_applicable, apply and apply_unsafe answer, return and raise
\* exactly what they do for the event without these effects.
C8_InactiveEffectsContributeNothing ==
    LET p == Pruned(event, Given)
    IN /\ last.op = "apply_unsafe" =>
             last.res = ApplyUnsafe(p, Given, last.returned2)
       /\ last.op = "apply" =>
             last.res = Apply(p, Given, last.returned1, last.returned2)
       /\ last.op = "is_applicable" =>
             last.res = IsApplicable(p, Given, last.returned1)

\* test_exceptions: (c1 -> f := 5), (c2 -> f := 6), (c3 -> f += 5) where only c1
\* holds: apply returns a state with f = 5
C8_Witness ==
    /\ last.op = "apply"
    /\ event.effects = << Effect("f", IntC(5), FluentExp("c1"), "ASSIGN"),
                          Effect("f", IntC(6), FluentExp("c2"), "ASSIGN"),
                          Effect("f", IntC(5), FluentExp("c3"), "INCREASE") >>
    /\ Given["c1"] /\ ~Given["c2"] /\ ~Given["c3"]
    /\ Given["f"] = 0
    /\ Returned
    /\ last.res.values["f"] = 5

----------------------------------------------------------------------------
(* C9 *)

\* the sum of the amounts of the active effects of one kind on fl, each amount
\* evaluated in the state
RECURSIVE Amounts(_, _, _, _, _)
Amounts(effects, i, state, fl, k) ==
    IF i > Len(effects)
    THEN 0
    ELSE (IF effects[i].fluent = fl /\ effects[i].kind = k /\ Active(effects[i], state)
          THEN Evaluate(effects[i].value, state)
          ELSE 0)
         + Amounts(effects, i + 1, state, fl, k)

\* C9: active increases and decreases of one fluent accumulate: in the state
\* apply_unsafe (or apply) returns, the fluent is its value in the given state
\* plus the increase amounts minus the decrease amounts, each amount evaluated in
\* the given state, in every order of the effects.
C9_IncreasesAccumulate ==
    \A fl \in Fluents :
        (Applied /\ Returned /\ ActiveOn(event, Given, fl, IncDec) # {}) =>
            last.res.values[fl] =
                Given[fl] + Amounts(event.effects, 1, Given, fl, "INCREASE")
                          - Amounts(event.effects, 1, Given, fl, "DECREASE")

\* f += f, f -= 1 and (c3 -> f += 5) applied where f is 1: f becomes 1 + 1 - 1 + 5
C9_Witness ==
    /\ last.op = "apply_unsafe"
    /\ event.effects = << Effect("f", FluentExp("f"), TRUE_EXP, "INCREASE"),
                          Effect("f", IntC(1), TRUE_EXP, "DECREASE"),
                          Effect("f", IntC(5), FluentExp("c3"), "INCREASE") >>
    /\ Given["f"] = 1 /\ Given["c3"]
    /\ Returned
    /\ last.res.values["f"] = 6

----------------------------------------------------------------------------
(* C10 *)

\* the fluents the event may write in the state: the targets of its active
\* effects and the fluents its simulated effect lists
Written(ev, state) ==
    {ev.effects[i].fluent : i \in {j \in 1..Len(ev.effects) : Active(ev.effects[j], state)}}
    \cup {ev.simulated_effect.fluents[i] : i \in 1..Len(ev.simulated_effect.fluents)}

\* C10: frame: in the state apply_unsafe returns, every fluent that is neither
\* the target of an active effect nor listed in the simulated effect has the
\* value it has in the given state.
C10_Frame ==
    (last.op = "apply_unsafe" /\ Returned) =>
        \A fl \in Fluents \ Written(event, Given) : last.res.values[fl] = Given[fl]

\* apply_unsafe changed the state, left the target of an inactive effect, and
\* left a fluent that is not at its initial value
C10_Witness ==
    /\ last.op = "apply_unsafe"
    /\ Returned
    /\ last.res.values # Given
    /\ \E i \in 1..Len(event.effects) :
          /\ ~Active(event.effects[i], Given)
          /\ event.effects[i].fluent \notin Written(event, Given)
    /\ \E fl \in Fluents \ Written(event, Given) : Given[fl] # InitialValues[fl]

----------------------------------------------------------------------------
(* The linear graph problem: locations l0..ln chained by connected, a robot *)
(* that moves along them and a probabilistic push (as the pushes of main.py) *)

\* last location of the graph the cache is exercised on
MaxLocation == 1

robot_at(l) == "robot_at(l" \o ToString(l) \o ")"

\* the static fluent connected: each location is connected to the next one
connected(l_from, l_to) == l_to = l_from + 1

LinearGraphFluents(n) == {robot_at(l) : l \in 0..n} \cup {"car_out"}

LinearGraphInitialValues(n) == [fl \in LinearGraphFluents(n) |-> fl = robot_at(0)]

LinearGraphGoals(n) == <<FluentExp(robot_at(n))>>

\* the actions of the problem (self._actions) and their classes
ProblemActions == {"move", "push"}

ActionClass(a) ==
    CASE a = "move" -> "InstantaneousAction"
      [] a = "push" -> "ProbabilisticAction"
      [] OTHER -> "DurativeAction"

\* isinstance(original_action, InstantaneousAction): the subclasses count
IsInstantaneousAction(a) == ActionClass(a) \in {"InstantaneousAction", "ProbabilisticAction"}

\* a ProbabilisticEffect: fluents and the function that samples their values
ProbabilisticEffect(fls, fn) == [fluents |-> fls, function |-> fn]

----------------------------------------------------------------------------
(* The Grounder *)

\* no grounded action: the grounding is vacuous
None == [class |-> "None"]

Key(a, params) == [action |-> a, params |-> params]

\* Grounder.ground_action: the action with its parameters substituted, or None
\* when a static precondition (connected) is false
ground_action(a, params) ==
    IF a = "move"
    THEN IF connected(params[1], params[2])
         THEN [class |-> "InstantaneousAction",
               preconditions |-> <<FluentExp(robot_at(params[1]))>>,
               effects |-> <<Effect(robot_at(params[1]), BoolC(FALSE), TRUE_EXP, "ASSIGN"),
                             Effect(robot_at(params[2]), BoolC(TRUE), TRUE_EXP, "ASSIGN")>>,
               simulated_effect |-> NoSimulatedEffect,
               probabilistic_effects |-> <<>>]
         ELSE None
    ELSE [class |-> "ProbabilisticAction",
          preconditions |-> <<>>,
          effects |-> <<>>,
          simulated_effect |-> NoSimulatedEffect,
          probabilistic_effects |-> <<ProbabilisticEffect(<<"car_out">>, "sample")>>]

\* Grounder.get_grounded_actions: every grounding that is not vacuous, as
\* (original_action, params, grounded_action), moves first
get_grounded_actions(n) ==
    [i \in 1..n |-> [action |-> "move", params |-> <<i - 1, i>>,
                     grounded |-> ground_action("move", <<i - 1, i>>)]]
    \o <<[action |-> "push", params |-> <<>>, grounded |-> ground_action("push", <<>>)]>>

----------------------------------------------------------------------------
(* The event cache: SequentialSimulator._events, an insertion-ordered dict *)

\* SequentialSimulator.__init__ (lines 80-85)
NewSimulator(n) == [problem |-> n, _events |-> <<>>, _all_events_grounded |-> FALSE]

CacheIndex(events, key) == {i \in 1..Len(events) : events[i].key = key}

\* self._events.get(key, None) is not None
Cached(events, key) == CacheIndex(events, key) # {}

CacheGet(events, key) == events[CHOOSE i \in CacheIndex(events, key) : TRUE].list

NotImplemented(events) == [kind |-> "raise", error |-> "NotImplementedError", events |-> events]

\* bug: the empty list of a vacuous grounding is not stored in the cache
GetOrCreateEventsEmptyNotCached(events, original_action, params, grounded_action) ==
    IF IsInstantaneousAction(original_action)
    THEN LET key == Key(original_action, params)
         IN IF Cached(events, key)
            THEN [kind |-> "events", list |-> CacheGet(events, key), events |-> events]
            ELSE IF grounded_action = None
                 THEN [kind |-> "events", list |-> <<>>, events |-> events]
                 ELSE [kind |-> "events",
                       list |-> <<Event(grounded_action.preconditions,
                                        grounded_action.effects,
                                        grounded_action.simulated_effect)>>,
                       events |-> Append(events,
                           [key |-> key,
                            list |-> <<Event(grounded_action.preconditions,
                                             grounded_action.effects,
                                             grounded_action.simulated_effect)>>])]
    ELSE NotImplemented(events)

\* _get_or_create_events (lines 440-481): the event list and the cache after the call
GetOrCreateEvents(events, original_action, params, grounded_action) ==
    IF IsInstantaneousAction(original_action)
    THEN LET key == Key(original_action, params)
         IN IF Cached(events, key)
            THEN [kind |-> "events", list |-> CacheGet(events, key), events |-> events]
            ELSE LET event_list ==
                         IF grounded_action = None
                         THEN <<>>
                         ELSE <<Event(grounded_action.preconditions,
                                      grounded_action.effects,
                                      grounded_action.simulated_effect)>>
                 IN [kind |-> "events", list |-> event_list,
                     events |-> Append(events, [key |-> key, list |-> event_list])]
    ELSE NotImplemented(events)

\* bug: the action is looked up after the grounding was requested
GetEventsGroundingFirst(sim, a, params) ==
    LET grounded_action == ground_action(a, params)
        r == GetOrCreateEvents(sim._events, a, params, grounded_action)
    IN IF a \notin ProblemActions
       THEN [kind |-> "raise", error |-> "UPUsageError", sim |-> sim,
             grounded |-> <<Key(a, params)>>]
       ELSE IF r.kind = "raise"
            THEN [kind |-> "raise", error |-> r.error, sim |-> sim,
                  grounded |-> <<Key(a, params)>>]
            ELSE [kind |-> "events", list |-> r.list,
                  sim |-> [sim EXCEPT !._events = r.events],
                  grounded |-> <<Key(a, params)>>]

\* _get_events (lines 356-380): the outcome, the simulator after the call and the
\* pairs the Grounder was asked to ground
GetEvents(sim, a, params) ==
    IF a \notin ProblemActions
    THEN [kind |-> "raise", error |-> "UPUsageError", sim |-> sim, grounded |-> <<>>]
    ELSE LET grounded_action == ground_action(a, params)
             r == GetOrCreateEvents(sim._events, a, params, grounded_action)
         IN IF r.kind = "raise"
            THEN [kind |-> "raise", error |-> r.error, sim |-> sim,
                  grounded |-> <<Key(a, params)>>]
            ELSE [kind |-> "events", list |-> r.list,
                  sim |-> [sim EXCEPT !._events = r.events],
                  grounded |-> <<Key(a, params)>>]

----------------------------------------------------------------------------
(* The generator of SequentialSimulator._get_applicable_events *)

\* most generators a driver creates
MaxIterators == 2

\* the generator object a call returns: its body has not started to run
NewIterator(state) ==
    [state |-> state, phase |-> "created", branch |-> "none", pos |-> 1, size |-> 0,
     yielded |-> <<>>]

\* the total grounding loop (lines 340-350), from the pos-th grounded action to
\* the next yield or to the end; r is what _get_or_create_events gave for that
\* action and a the applicability of its event
RECURSIVE GroundingRun(_, _, _, _)
GroundingTest(r, a, grounded_actions, pos, state) ==
    IF a.kind = "raise"
    THEN [kind |-> "raise", events |-> r.events, pos |-> pos]
    ELSE IF a.value
         THEN [kind |-> "yield", event |-> r.list[1], events |-> r.events, pos |-> pos + 1]
         ELSE GroundingRun(r.events, grounded_actions, pos + 1, state)

GroundingStep(r, grounded_actions, pos, state) ==
    IF r.kind = "raise"
    THEN [kind |-> "raise", events |-> r.events, pos |-> pos]
    ELSE IF r.list = <<>>
         THEN GroundingRun(r.events, grounded_actions, pos + 1, state)
         ELSE GroundingTest(r, IsApplicable(r.list[1], state, <<>>),
                            grounded_actions, pos, state)

GroundingRun(events, grounded_actions, pos, state) ==
    IF pos > Len(grounded_actions)
    THEN [kind |-> "stop", events |-> events, pos |-> pos]
    ELSE GroundingStep(GetOrCreateEvents(events, grounded_actions[pos].action,
                                         grounded_actions[pos].params,
                                         grounded_actions[pos].grounded),
                       grounded_actions, pos, state)

\* the scan of the cache (lines 351-354), from the pos-th entry of
\* self._events.values() to the next yield or to the end; a is the
\* applicability of that entry's event
RECURSIVE ScanRun(_, _, _)
ScanTest(a, events, pos, state) ==
    IF a.kind = "raise"
    THEN [kind |-> "raise", pos |-> pos]
    ELSE IF a.value
         THEN [kind |-> "yield", event |-> events[pos].list[1], pos |-> pos + 1]
         ELSE ScanRun(events, pos + 1, state)

ScanRun(events, pos, state) ==
    IF pos > Len(events)
    THEN [kind |-> "stop", pos |-> pos]
    ELSE IF events[pos].list = <<>>
         THEN ScanRun(events, pos + 1, state)
         ELSE ScanTest(IsApplicable(events[pos].list[1], state, <<>>), events, pos, state)

\* the generator after a run of its body in one of the two branches
Resumed(it, branch, r, size) ==
    [state |-> it.state,
     phase |-> CASE r.kind = "yield" -> "suspended"
                 [] r.kind = "stop" -> "done"
                 [] OTHER -> "raised",
     branch |-> branch,
     pos |-> r.pos,
     size |-> size,
     yielded |-> IF r.kind = "yield" THEN Append(it.yielded, r.event) ELSE it.yielded]

\* what next() gives: the yielded event, StopIteration or an error
Outcome(r) ==
    CASE r.kind = "yield" -> [kind |-> "event", event |-> r.event]
      [] r.kind = "stop" -> [kind |-> "StopIteration"]
      [] OTHER -> [kind |-> "raise"]

\* the generator and the simulator after a run r of the total grounding
\* branch: the flag is set before the first grounding (line 338)
AfterGrounding(sim, it, r) ==
    [sim |-> [sim EXCEPT !._events = r.events, !._all_events_grounded = TRUE],
     it |-> Resumed(it, "grounding", r, 0),
     res |-> Outcome(r)]

AdvanceGrounding(sim, it) ==
    AfterGrounding(sim, it,
                   GroundingRun(sim._events, get_grounded_actions(sim.problem),
                                it.pos, it.state))

\* the generator after a run r of the scanning branch
AfterScanning(sim, it, r, size) ==
    [sim |-> sim, it |-> Resumed(it, "scanning", r, size), res |-> Outcome(r)]

\* the dict iterator fails when the dict has changed size since the iteration
\* started
ScanFrom(sim, it, size) ==
    IF Len(sim._events) # size
    THEN [kind |-> "raise", pos |-> it.pos]
    ELSE ScanRun(sim._events, it.pos, it.state)

AdvanceScanning(sim, it) ==
    IF it.phase = "created"
    THEN AfterScanning(sim, it, ScanRun(sim._events, it.pos, it.state), Len(sim._events))
    ELSE AfterScanning(sim, it, ScanFrom(sim, it, it.size), it.size)

\* one next() on a generator of _get_applicable_events (lines 336-354)
Advance(sim, it) ==
    IF it.branch = "grounding" \/ (it.phase = "created" /\ ~sim._all_events_grounded)
    THEN AdvanceGrounding(sim, it)
    ELSE AdvanceScanning(sim, it)

----------------------------------------------------------------------------
(* The driver of the event cache: get_events, get_applicable_events, next() *)
(* on the generators it holds, and apply on the events it obtained          *)

\* the driver holds no event yet
NoEvent == [name |-> "none"]

\* the (action, parameters) pairs the driver asks events for: the moves
\* between neighbours, in both directions, and the push
DriverKeys ==
    {Key("move", <<a, b>>) : a \in 0..MaxLocation, b \in 0..MaxLocation}
    \cup {Key("push", <<>>)}

\* an action of another problem
ForeignKeys == {Key("fly", <<>>)}

NeighbourKeys ==
    {k \in DriverKeys : k.action = "push"
                        \/ k.params[1] = k.params[2] + 1 \/ k.params[2] = k.params[1] + 1}

CacheInit ==
    /\ event = NoEvent
    /\ states = <<LinearGraphInitialValues(MaxLocation)>>
    /\ last = NoCall
    /\ action = NoAction
    /\ simulator = NewSimulator(MaxLocation)
    /\ iterators = <<>>

DoGetEvents ==
    \E key \in NeighbourKeys \cup ForeignKeys :
        LET r == GetEvents(simulator, key.action, key.params)
        IN /\ simulator' = r.sim
           /\ last' = [op |-> "get_events", key |-> key,
                       cached |-> Cached(simulator._events, key),
                       grounded |-> r.grounded,
                       res |-> IF r.kind = "raise"
                               THEN [kind |-> "raise", error |-> r.error]
                               ELSE [kind |-> "events", list |-> r.list]]
           /\ UNCHANGED <<event, states, action, iterators>>

DoGetApplicableEvents ==
    \E j \in 1..Len(states) :
        /\ Len(iterators) < MaxIterators
        /\ iterators' = Append(iterators, NewIterator(states[j]))
        /\ last' = [op |-> "get_applicable_events", arg |-> j,
                    res |-> [kind |-> "iterator", id |-> Len(iterators) + 1]]
        /\ UNCHANGED <<event, states, action, simulator>>

DoNext ==
    \E i \in 1..Len(iterators) :
        /\ iterators[i].phase \in {"created", "suspended"}
        /\ \E r \in {Advance(simulator, iterators[i])} :
              /\ simulator' = r.sim
              /\ iterators' = [iterators EXCEPT ![i] = r.it]
              /\ last' = [op |-> "next", arg |-> i, res |-> r.res]
        /\ UNCHANGED <<event, states, action>>

\* apply on an event of the cache, in the last state the driver holds
DoApplyCached ==
    \E c \in 1..Len(simulator._events) :
        /\ simulator._events[c].list # <<>>
        /\ \E ev \in {simulator._events[c].list[1]} :
           \E r1 \in CheckReturns(ev, states[Len(states)]) :
           \E a \in {IsApplicable(ev, states[Len(states)], r1)} :
           \E r2 \in (IF a.kind = "bool" /\ a.value
                      THEN UnsafeReturns(ev, states[Len(states)])
                      ELSE {<<>>}) :
           \E res \in {Apply(ev, states[Len(states)], r1, r2)} :
              /\ event' = ev
              /\ last' = [op |-> "apply", arg |-> Len(states),
                          key |-> simulator._events[c].key,
                          returned1 |-> r1, returned2 |-> r2,
                          calls |-> Count(ToCheck(ev))
                                    + Count(a.kind = "bool" /\ a.value /\ r2 # <<>>),
                          res |-> res]
              /\ states' = Held(states, Len(states), res)
              /\ Len(states') <= MaxDepth + 1
        /\ UNCHANGED <<action, simulator, iterators>>

CacheNext == DoGetEvents \/ DoGetApplicableEvents \/ DoNext \/ DoApplyCached

CacheSpec == CacheInit /\ [][CacheNext]_vars

----------------------------------------------------------------------------
(* Properties of the event cache *)

\* a get_events call for a pair whose entry is already in the cache returns the
\* list of that entry
RepeatedCallsReturnEqualLists ==
    (last'.op = "get_events" /\ Cached(simulator._events, last'.key))
        => /\ last'.res.kind = "events"
           /\ last'.res.list = CacheGet(simulator._events, last'.key)

\* a get_events call for a pair whose entry is already in the cache does not
\* ask the Grounder to ground the pair again
GroundedAtMostOnce ==
    (last'.op = "get_events" /\ Cached(simulator._events, last'.key))
        => last'.grounded = <<>>

\* the entries of the cache stay where and what they are
EntriesKept ==
    /\ Len(simulator'._events) >= Len(simulator._events)
    /\ \A i \in 1..Len(simulator._events) : simulator'._events[i] = simulator._events[i]

\* C11: calling get_events(a, params) again for the same pair, with any other
\* simulator operation in between, returns an equal event list, asks the
\* Grounder for that pair at most once, and no cache entry is ever removed
\* or replaced.
C11_GroundingCacheIdempotence ==
    [][RepeatedCallsReturnEqualLists /\ GroundedAtMostOnce /\ EntriesKept]_vars

\* the event of a grounded action, as _get_or_create_events creates it
EventOf(grounded_action) ==
    Event(grounded_action.preconditions, grounded_action.effects,
          grounded_action.simulated_effect)

\* the events of all the groundings the Grounder can produce
GroundedEvents(n) ==
    {EventOf(get_grounded_actions(n)[i].grounded) : i \in 1..Len(get_grounded_actions(n))}

\* those of them that are applicable in a state
ApplicableEvents(n, state) ==
    {e \in GroundedEvents(n) : IsApplicable(e, state, <<>>) = [kind |-> "bool", value |-> TRUE]}

\* the events a generator has yielded so far
Yielded(it) == {it.yielded[k] : k \in 1..Len(it.yielded)}

\* at most one generator ran the total grounding
FullGroundingAtMostOnce ==
    Cardinality({i \in 1..Len(iterators) : iterators[i].branch = "grounding"}) <= 1

\* a call that scanned the cache to the end has yielded every applicable event
LaterCallsComplete ==
    \A i \in 1..Len(iterators) :
        (iterators[i].branch = "scanning" /\ iterators[i].phase = "done")
            => ApplicableEvents(simulator.problem, iterators[i].state)
                   \subseteq Yielded(iterators[i])

\* C12: the full-grounding pass runs at most once per simulator, and every call
\* of get_applicable_events after the first yields every event, among all the
\* groundings the Grounder can produce, that is applicable in its state,
\* however the iterator of the first call was consumed.
C12_FullGroundingOnceThenComplete == FullGroundingAtMostOnce /\ LaterCallsComplete

\* C13: a get_applicable_events(state) consumed to the end has yielded exactly
\* the events of the Grounder's groundings that are applicable in state, on
\* the first call and on the later ones.
C13_YieldsExactlyApplicable ==
    \A i \in 1..Len(iterators) :
        iterators[i].phase = "done"
            => Yielded(iterators[i])
                   = ApplicableEvents(simulator.problem, iterators[i].state)

\* the fluents listed by the probabilistic effects of a grounded action, in order
RECURSIVE ProbabilisticFluents(_, _)
ProbabilisticFluents(probabilistic_effects, k) ==
    IF k > Len(probabilistic_effects)
    THEN <<>>
    ELSE probabilistic_effects[k].fluents
         \o ProbabilisticFluents(probabilistic_effects, k + 1)

\* the grounded action the last applied event was created from
AppliedGrounding == ground_action(last.key.action, last.key.params)

\* C14: applying the event of a grounded ProbabilisticAction invokes the
\* function of each of its probabilistic effects and writes the returned
\* values, one per listed fluent in list order, into the resulting state; no
\* effect declared on the action is dropped.
C14_ProbabilisticEffectsApplied ==
    (simulator # NoSimulator /\ last.op = "apply" /\ last.res.kind = "state")
        => /\ last.calls = Len(AppliedGrounding.probabilistic_effects)
           /\ Len(last.returned2)
                  = Len(ProbabilisticFluents(AppliedGrounding.probabilistic_effects, 1))
           /\ \A j \in 1..Len(last.returned2) :
                  last.res.values[ProbabilisticFluents(
                      AppliedGrounding.probabilistic_effects, 1)[j]] = last.returned2[j]

----------------------------------------------------------------------------
(* Invocations of the simulated effect's function *)

\* C15: during one call apply(e, s) that returns a state, the function of
\* e's simulated effect is invoked exactly once, also when the simulated
\* effect lists a bounded numeric fluent.
C15_InvokedExactlyOnce ==
    (simulator = NoSimulator /\ last.op = "apply" /\ Returned /\ HasSimulatedEffect(event))
        => last.calls = 1

----------------------------------------------------------------------------
(* The driver that queries the simulator about one event and one state: the *)
(* unsatisfied goals and conditions, with and without early termination,    *)
(* and apply_unsafe, whose returned states it does not keep                 *)

\* what the most recent apply_unsafe before the coming call returned, if any
PriorOf(l) ==
    CASE l.op = "apply_unsafe" -> l.res
      [] l.op = "none" -> NoneResult
      [] OTHER -> l.prior

DoGetUnsatisfiedGoals ==
    \E early_termination \in BOOLEAN :
        /\ last' = [op |-> "get_unsatisfied_goals", arg |-> 1,
                    early_termination |-> early_termination,
                    returned1 |-> <<>>, calls |-> 0,
                    res |-> [kind |-> "list",
                             list |-> GetUnsatisfiedGoals(states[1], early_termination)],
                    prior |-> PriorOf(last)]
        /\ UNCHANGED <<event, states, action, simulator, iterators>>

DoQueryIsGoal ==
    /\ last' = [op |-> "is_goal", arg |-> 1, early_termination |-> TRUE,
                returned1 |-> <<>>, calls |-> 0,
                res |-> [kind |-> "bool", value |-> IsGoal(states[1])],
                prior |-> PriorOf(last)]
    /\ UNCHANGED <<event, states, action, simulator, iterators>>

DoGetUnsatisfiedConditions ==
    \E early_termination \in BOOLEAN :
    \E r1 \in CheckReturns(event, states[1]) :
        /\ last' = [op |-> "get_unsatisfied_conditions", arg |-> 1,
                    early_termination |-> early_termination,
                    returned1 |-> r1, calls |-> Count(ToCheck(event)),
                    res |-> GetUnsatisfiedConditions(event, states[1],
                                                     early_termination, r1),
                    prior |-> PriorOf(last)]
        /\ UNCHANGED <<event, states, action, simulator, iterators>>

DoQueryApplyUnsafe ==
    \E r2 \in UnsafeReturns(event, states[1]) :
        /\ last' = [op |-> "apply_unsafe", arg |-> 1, early_termination |-> FALSE,
                    returned1 |-> r2, calls |-> Count(r2 # <<>>),
                    res |-> ApplyUnsafe(event, states[1], r2),
                    prior |-> PriorOf(last)]
        /\ UNCHANGED <<event, states, action, simulator, iterators>>

QueryNext ==
    DoGetUnsatisfiedGoals \/ DoQueryIsGoal \/ DoGetUnsatisfiedConditions
    \/ DoQueryApplyUnsafe

QuerySpec == Init /\ [][QueryNext]_vars

----------------------------------------------------------------------------
(* Goals *)

\* the goals that evaluate false in a state, in goal order
FalseGoals(state) == SelectSeq(Goals, LAMBDA g : Evaluate(g, state) = FALSE)

\* the first element of a list, as a list
FirstOf(l) == IF l = <<>> THEN <<>> ELSE <<Head(l)>>

\* C16: get_unsatisfied_goals(state) returns, in goal order, exactly the goals
\* that evaluate false in state, with early_termination only the first of them,
\* and is_goal(state) holds iff no goal evaluates false in state.
C16_UnsatisfiedGoals ==
    /\ last.op = "get_unsatisfied_goals"
         => last.res.list = IF last.early_termination
                            THEN FirstOf(FalseGoals(Given))
                            ELSE FalseGoals(Given)
    /\ last.op = "is_goal" => (last.res.value <=> FalseGoals(Given) = <<>>)

\* both goals are false and the early-terminated list holds the first only
C16_Witness ==
    /\ last.op = "get_unsatisfied_goals"
    /\ last.early_termination
    /\ Len(FalseGoals(Given)) = 2
    /\ last.res.list = <<Goals[1]>>

----------------------------------------------------------------------------
(* The driver of the linear graph: l0..l9, the robot starts at l0 and the   *)
(* goal is robot_at(l9); it checks and applies the moves to the next         *)
(* location, and asks whether the goal is reached                            *)

\* the last location l9
LastLocation == 9

\* is_goal for the goals of the linear graph problem
IsGoalOf(goals, state) == UnsatisfiedGoalsOf(goals, 1, state, TRUE, <<>>) = <<>>

\* the moves of the problem that have a grounding: li to li+1
MoveKeys == {Key("move", <<i, i + 1>>) : i \in 0..(LastLocation - 1)}

RobotInit ==
    /\ event = NoEvent
    /\ states = <<LinearGraphInitialValues(LastLocation)>>
    /\ last = NoCall
    /\ action = NoAction
    /\ simulator = NoSimulator
    /\ iterators = <<>>

DoMoveIsApplicable ==
    \E key \in MoveKeys :
        /\ event' = EventOf(ground_action(key.action, key.params))
        /\ last' = [op |-> "is_applicable", arg |-> Len(states), key |-> key,
                    res |-> IsApplicable(event', states[Len(states)], <<>>)]
        /\ UNCHANGED <<states, action, simulator, iterators>>

DoMove ==
    \E key \in MoveKeys :
    \E res \in {Apply(EventOf(ground_action(key.action, key.params)),
                      states[Len(states)], <<>>, <<>>)} :
        /\ event' = EventOf(ground_action(key.action, key.params))
        /\ last' = [op |-> "apply", arg |-> Len(states), key |-> key, res |-> res]
        /\ states' = Held(states, Len(states), res)
        /\ UNCHANGED <<action, simulator, iterators>>

DoRobotIsGoal ==
    /\ last' = [op |-> "is_goal", arg |-> Len(states), key |-> Key("none", <<>>),
                res |-> [kind |-> "bool",
                         value |-> IsGoalOf(LinearGraphGoals(LastLocation),
                                            states[Len(states)])]]
    /\ UNCHANGED <<event, states, action, simulator, iterators>>

RobotNext == DoMoveIsApplicable \/ DoMove \/ DoRobotIsGoal

RobotSpec == RobotInit /\ [][RobotNext]_vars

\* the locations the robot is at in a state
RobotLocations(state) == {l \in 0..LastLocation : state[robot_at(l)]}

\* the last call was about the move from the location reached so far to the next
NextMove == last.key = Key("move", <<last.arg - 1, last.arg>>)

\* C17: on the linear graph l0..l9 with the robot at l0, the moves
\* move(li, li+1) for i = 0..8, in order, are each applicable in the state
\* reached so far and lead to the next location; is_goal is false in the
\* initial and in every intermediate state and true only in the state reached
\* after the ninth move, where robot_at(l9) holds.
C17_LinearGraphReachability ==
    /\ \A k \in 1..Len(states) : RobotLocations(states[k]) = {k - 1}
    /\ (last.op = "is_applicable" /\ NextMove)
         => last.res = [kind |-> "bool", value |-> TRUE]
    /\ (last.op = "apply" /\ NextMove)
         => /\ last.res.kind = "state"
            /\ RobotLocations(last.res.values) = {last.arg}
    /\ last.op = "is_goal"
         => /\ last.res.value <=> (last.arg = LastLocation + 1)
            /\ last.res.value <=> states[last.arg][robot_at(LastLocation)]

\* the ninth move has been applied and the goal is found reached
C17_Witness ==
    /\ Len(states) = LastLocation + 1
    /\ last.op = "is_goal"
    /\ last.res.value
    /\ states[Len(states)][robot_at(LastLocation)]

----------------------------------------------------------------------------
(* Early termination of get_unsatisfied_conditions *)

\* the conditions of the event that are not true in the state, in event order
FalseConditions(ev, state) == SelectSeq(ev.conditions, LAMBDA c : Evaluate(c, state) # TRUE)

\* the list starts with the conditions l, in order
StartsWith(list, l) == Len(list) >= Len(l) /\ SubSeq(list, 1, Len(l)) = l

\* C18: with early_termination, get_unsatisfied_conditions stops at the first
\* unsatisfied condition: it returns a list of at most one element, which is
\* the first false condition of the event when there is one, and nothing is
\* evaluated after it; without the flag the returned list has every false
\* condition of the event, in event order.
C18_EarlyTerminationStopsAtFirst ==
    last.op = "get_unsatisfied_conditions"
        => IF last.early_termination
           THEN /\ SomeConditionFalse(event, Given)
                     => last.res = [kind |-> "list",
                                    list |-> FirstOf(FalseConditions(event, Given))]
                /\ last.res.kind = "list" => Len(last.res.list) <= 1
           ELSE last.res.kind = "list"
                     => StartsWith(last.res.list, FalseConditions(event, Given))

\* without the flag every false condition is in the returned list, in event
\* order, and with the flag the list starts with the first false condition
C18_ConditionsPartHolds ==
    (last.op = "get_unsatisfied_conditions" /\ last.res.kind = "list")
        => StartsWith(last.res.list,
                      IF last.early_termination
                      THEN FirstOf(FalseConditions(event, Given))
                      ELSE FalseConditions(event, Given))

----------------------------------------------------------------------------
(* Purity of apply_unsafe *)

\* the event has no callback whose result is drawn at random
Deterministic(ev) == ev.simulated_effect.function # "sample"

----------------------------------------------------------------------------
(* InstantaneousAction: the effects of an action under construction, and    *)
(* the conflict checks made when one is added (model/action.py,              *)
(* model/effect.py)                                                          *)

ConflictingEffects == "UPConflictingEffectsException"

TypeError == "UPTypeError"

\* InstantaneousAction.__init__ and clear_effects: no effect, nothing recorded
NewAction ==
    [name |-> "action", _effects |-> <<>>, _fluents_assigned |-> EmptyMap,
     _fluents_inc_dec |-> {}, _simulated_effect |-> NoSimulatedEffect]

\* what the check leaves: the error it raises if any, and the mapping and the
\* set it was given, which it updates in place
Checked(raised, fluents_assigned, fluents_inc_dec) == [raised |-> raised, fluents_assigned |-> fluents_assigned, fluents_inc_dec |-> fluents_inc_dec]

is_constant(e) == e.tag \in {"int", "bool"}

constant_value(e) == IF e.tag = "int" THEN e.i ELSE e.b

\* the two values of two assignments differ (effect.py lines 285-289)
DifferentValues(assigned_value, value) ==
    /\ assigned_value # value
    /\ ~(/\ is_constant(assigned_value)
         /\ is_constant(value)
         /\ constant_value(assigned_value) = constant_value(value))

\* simulated_effect is not None and effect.fluent in simulated_effect.fluents
InSimulatedEffect(fluent, simulated_effect) ==
    /\ simulated_effect # NoSimulatedEffect
    /\ \E i \in 1..Len(simulated_effect.fluents) : simulated_effect.fluents[i] = fluent

\* bug: an assignment is not checked against the increases and decreases
check_conflicting_effects_no_inc_dec(effect, simulated_effect, fluents_assigned, fluents_inc_dec) ==
    IF is_conditional(effect) \/ is_bool_type(effect.fluent)
    THEN Checked("none", fluents_assigned, fluents_inc_dec)
    ELSE IF is_assignment(effect)
         THEN IF InSimulatedEffect(effect.fluent, simulated_effect)
              THEN Checked(ConflictingEffects, fluents_assigned, fluents_inc_dec)
              ELSE IF Has(fluents_assigned, effect.fluent)
                   THEN IF DifferentValues(fluents_assigned[effect.fluent], effect.value)
                        THEN Checked(ConflictingEffects, fluents_assigned, fluents_inc_dec)
                        ELSE Checked("none", fluents_assigned, fluents_inc_dec)
                   ELSE Checked("none", Put(fluents_assigned, effect.fluent, effect.value),
                                fluents_inc_dec)
         ELSE IF Has(fluents_assigned, effect.fluent)
              THEN Checked(ConflictingEffects, fluents_assigned, fluents_inc_dec)
              ELSE IF InSimulatedEffect(effect.fluent, simulated_effect)
                   THEN Checked(ConflictingEffects, fluents_assigned,
                                fluents_inc_dec \cup {effect.fluent})
                   ELSE Checked("none", fluents_assigned,
                                fluents_inc_dec \cup {effect.fluent})

\* check_conflicting_effects (effect.py lines 235-314), timing None
check_conflicting_effects(effect, simulated_effect, fluents_assigned, fluents_inc_dec) ==
    IF is_conditional(effect) \/ is_bool_type(effect.fluent)
    THEN Checked("none", fluents_assigned, fluents_inc_dec)
    ELSE IF is_assignment(effect)
         THEN IF effect.fluent \in fluents_inc_dec
              THEN Checked(ConflictingEffects, fluents_assigned, fluents_inc_dec)
              ELSE IF InSimulatedEffect(effect.fluent, simulated_effect)
                   THEN Checked(ConflictingEffects, fluents_assigned, fluents_inc_dec)
                   ELSE IF Has(fluents_assigned, effect.fluent)
                        THEN IF DifferentValues(fluents_assigned[effect.fluent],
                                                effect.value)
                             THEN Checked(ConflictingEffects, fluents_assigned,
                                          fluents_inc_dec)
                             ELSE Checked("none", fluents_assigned, fluents_inc_dec)
                        ELSE Checked("none",
                                     Put(fluents_assigned, effect.fluent, effect.value),
                                     fluents_inc_dec)
         ELSE IF Has(fluents_assigned, effect.fluent)
              THEN Checked(ConflictingEffects, fluents_assigned, fluents_inc_dec)
              ELSE IF InSimulatedEffect(effect.fluent, simulated_effect)
                   THEN Checked(ConflictingEffects, fluents_assigned,
                                fluents_inc_dec \cup {effect.fluent})
                   ELSE Checked("none", fluents_assigned,
                                fluents_inc_dec \cup {effect.fluent})

\* bug: the simulated effect is checked against the assignments only
SimulatedEffectConflictsAssignedOnly(simulated_effect, fluents_assigned, fluents_inc_dec) ==
    \E i \in 1..Len(simulated_effect.fluents) :
        Has(fluents_assigned, simulated_effect.fluents[i])

\* check_conflicting_simulated_effects (effect.py lines 317-345): it raises
SimulatedEffectConflicts(simulated_effect, fluents_assigned, fluents_inc_dec) ==
    \E i \in 1..Len(simulated_effect.fluents) :
        \/ simulated_effect.fluents[i] \in fluents_inc_dec
        \/ Has(fluents_assigned, simulated_effect.fluents[i])

\* the action after the check of an effect: appended unless the check raised
Appended(a, effect, c) ==
    [a EXCEPT !._fluents_assigned = c.fluents_assigned,
              !._fluents_inc_dec = c.fluents_inc_dec,
              !._effects = IF c.raised = "none" THEN Append(@, effect) ELSE @]

\* InstantaneousAction._add_effect_instance (action.py lines 418-430)
add_effect_instance(a, effect) ==
    Appended(a, effect,
             check_conflicting_effects(effect, a._simulated_effect,
                                       a._fluents_assigned, a._fluents_inc_dec))

\* fluent_exp.type.is_compatible(value_exp.type)
is_compatible(fl, v) == IF is_int_type(fl) THEN v.tag = "int" ELSE v.tag = "bool"

----------------------------------------------------------------------------
(* The driver of the builder: it adds effects to one action, sets its        *)
(* simulated effect and clears it                                            *)

\* the number of effects the driver stores in the action
MaxStored == 2

BuilderFluents == {"f", "counter", "bf"}

BuilderValues == {IntC(1), IntC(2), BoolC(TRUE)}

BuilderConditions == {TRUE_EXP, FluentExp("c1")}

BuilderSimulatedEffects == {SimulatedEffect(<<"f">>, "drain"), SimulatedEffect(<<"bf">>, "sample")}

NoArgument == NoSimulatedEffect

\* the last call: the method, the effect it was last given, the error raised
\* and, for set_simulated_effect, the simulated effect given
Called(op, effect, raised) == [op |-> op, effect |-> effect, raised |-> raised, simulated_effect |-> NoArgument]

CalledSet(se, effect, raised) == [op |-> "set_simulated_effect", effect |-> effect, raised |-> raised, simulated_effect |-> se]

BuilderInit ==
    /\ action = NewAction
    /\ last = Called("none", Effect("f", IntC(1), TRUE_EXP, "ASSIGN"), "none")
    /\ event = NoEvent
    /\ states = <<InitialValues>>
    /\ simulator = NoSimulator
    /\ iterators = <<>>

\* bug: the effect is added without the type checks
AddCallUnchecked(op, kind) ==
    /\ Len(action._effects) < MaxStored
    /\ \E fl \in BuilderFluents, v \in BuilderValues, c \in BuilderConditions :
       \E a \in {add_effect_instance(action, Effect(fl, v, c, kind))} :
          /\ action' = a
          /\ last' = Called(op, Effect(fl, v, c, kind),
                            IF Len(a._effects) = Len(action._effects)
                            THEN ConflictingEffects
                            ELSE "none")
    /\ UNCHANGED <<event, states, simulator, iterators>>

\* add_effect, add_increase_effect and add_decrease_effect (action.py lines
\* 304-416): the type checks, then _add_effect_instance
AddCall(op, kind) ==
    /\ Len(action._effects) < MaxStored
    /\ \E fl \in BuilderFluents, v \in BuilderValues, c \in BuilderConditions :
          IF ~is_compatible(fl, v) \/ (kind \in IncDec /\ ~is_int_type(fl))
          THEN /\ last' = Called(op, Effect(fl, v, c, kind), TypeError)
               /\ UNCHANGED action
          ELSE \E a \in {add_effect_instance(action, Effect(fl, v, c, kind))} :
                  /\ action' = a
                  /\ last' = Called(op, Effect(fl, v, c, kind),
                                    IF Len(a._effects) = Len(action._effects)
                                    THEN ConflictingEffects
                                    ELSE "none")
    /\ UNCHANGED <<event, states, simulator, iterators>>

DoAddEffect == AddCall("add_effect", "ASSIGN")

DoAddIncreaseEffect == AddCall("add_increase_effect", "INCREASE")

DoAddDecreaseEffect == AddCall("add_decrease_effect", "DECREASE")

\* set_simulated_effect (action.py lines 437-451)
DoSetSimulatedEffect ==
    \E se \in BuilderSimulatedEffects :
        /\ IF SimulatedEffectConflicts(se, action._fluents_assigned,
                                       action._fluents_inc_dec)
           THEN /\ last' = CalledSet(se, last.effect, ConflictingEffects)
                /\ UNCHANGED action
           ELSE /\ last' = CalledSet(se, last.effect, "none")
                /\ action' = [action EXCEPT !._simulated_effect = se]
        /\ UNCHANGED <<event, states, simulator, iterators>>

\* clear_effects (action.py lines 247-252)
DoClearEffects ==
    /\ action' = NewAction
    /\ last' = Called("clear_effects", last.effect, "none")
    /\ UNCHANGED <<event, states, simulator, iterators>>

BuilderNext ==
    DoAddEffect \/ DoAddIncreaseEffect \/ DoAddDecreaseEffect
    \/ DoSetSimulatedEffect \/ DoClearEffects

BuilderSpec == BuilderInit /\ [][BuilderNext]_vars

----------------------------------------------------------------------------
(* Builder properties *)

AddOps == {"add_effect", "add_increase_effect", "add_decrease_effect"}

\* the effect is unconditional and on a non-boolean fluent
Unconditional(effect) == ~is_conditional(effect) /\ ~is_bool_type(effect.fluent)

\* an assignment and an increase or decrease of one fluent, or two assignments
\* of different values
ConflictingPair(e1, e2) ==
    /\ e1.fluent = e2.fluent
    /\ \/ is_assignment(e1) /\ e2.kind \in IncDec
       \/ is_assignment(e2) /\ e1.kind \in IncDec
       \/ is_assignment(e1) /\ is_assignment(e2) /\ e1.value # e2.value

\* the stored effects the effect would conflict with
ConflictsWithStored(effects, effect) ==
    /\ Unconditional(effect)
    /\ \E i \in 1..Len(effects) :
          Unconditional(effects[i]) /\ ConflictingPair(effects[i], effect)

\* C20: after any sequence of add_effect, add_increase_effect and
\* add_decrease_effect calls the stored unconditional effects of the action
\* never hold, for one non-boolean fluent, an assignment together with an
\* increase or decrease, nor two assignments of different values.
C20_NoConflictingPairStored ==
    \A i, j \in 1..Len(action._effects) :
        (Unconditional(action._effects[i]) /\ Unconditional(action._effects[j]))
            => ~ConflictingPair(action._effects[i], action._effects[j])

\* C20, the call: adding a well-typed effect that conflicts with a stored one
\* raises the conflicting-effects error and leaves the stored effects as they were
C20_ConflictingCallRaises ==
    (/\ last'.op \in AddOps
     /\ is_compatible(last'.effect.fluent, last'.effect.value)
     /\ ConflictsWithStored(action._effects, last'.effect))
        => /\ last'.raised = ConflictingEffects
           /\ action'._effects = action._effects

\* C20: builder fail-fast, the stored effects and the raising call together
C20_BuilderFailFast ==
    [][C20_ConflictingCallRaises /\ C20_NoConflictingPairStored']_vars

\* an increase of f was refused after an assignment of f, which is still the
\* only effect stored
C20_Witness ==
    /\ last.op = "add_increase_effect"
    /\ last.raised = ConflictingEffects
    /\ last.effect.fluent = "f"
    /\ Len(action._effects) = 1
    /\ is_assignment(action._effects[1])
    /\ action._effects[1].fluent = "f"
    /\ action._simulated_effect = NoSimulatedEffect

----------------------------------------------------------------------------
(* Simulated effect against effects, at construction *)

\* some stored effect writes the fluent
WrittenByStored(effects, fluent) == \E i \in 1..Len(effects) : effects[i].fluent = fluent

\* some stored unconditional effect on a non-boolean fluent writes the fluent
WrittenUnconditionally(effects, fluent) ==
    \E i \in 1..Len(effects) : effects[i].fluent = fluent /\ Unconditional(effects[i])

\* the call before last' raised the conflicting-effects error and changed
\* neither the stored effects nor the simulated effect
RaisesConflict ==
    /\ last'.raised = ConflictingEffects
    /\ action'._effects = action._effects
    /\ action'._simulated_effect = action._simulated_effect

\* the simulated effect the last set_simulated_effect call was given
SetArgument == last'.simulated_effect

\* C21 as stated: adding any well-typed effect on a fluent listed in the
\* action's simulated effect raises a conflict error, and so does setting a
\* simulated effect that lists a fluent written by any stored effect, for
\* every fluent type and every effect.
C21_SimulatedEffectConflictAlways ==
    [][/\ (/\ last'.op \in AddOps
           /\ last'.raised # TypeError
           /\ InSimulatedEffect(last'.effect.fluent, action._simulated_effect))
              => RaisesConflict
       /\ (/\ last'.op = "set_simulated_effect"
           /\ \E i \in 1..Len(SetArgument.fluents) :
                 WrittenByStored(action._effects, SetArgument.fluents[i]))
              => RaisesConflict]_vars

\* C21 amended: adding a well-typed unconditional effect on a non-boolean
\* fluent listed in the action's simulated effect raises a conflict error, and
\* so does setting a simulated effect that lists a fluent written by a stored
\* unconditional effect on a non-boolean fluent; a conditional effect, or an
\* effect on a boolean fluent, is stored without error next to a simulated
\* effect on its fluent, in either order.
C21_SimulatedEffectConflictUnconditional ==
    [][/\ (/\ last'.op \in AddOps
           /\ last'.raised # TypeError
           /\ InSimulatedEffect(last'.effect.fluent, action._simulated_effect))
              => IF Unconditional(last'.effect)
                 THEN RaisesConflict
                 ELSE /\ last'.raised = "none"
                      /\ action'._effects = Append(action._effects, last'.effect)
       /\ (/\ last'.op = "set_simulated_effect"
           /\ \E i \in 1..Len(SetArgument.fluents) :
                 WrittenUnconditionally(action._effects, SetArgument.fluents[i]))
              => RaisesConflict]_vars

\* an unconditional assignment of f was refused because the simulated effect
\* of the action lists f
C21_Witness ==
    /\ last.op = "add_effect"
    /\ last.raised = ConflictingEffects
    /\ Unconditional(last.effect)
    /\ InSimulatedEffect(last.effect.fluent, action._simulated_effect)
    /\ ~WrittenByStored(action._effects, last.effect.fluent)

----------------------------------------------------------------------------
(* DurationProbabilisticAction and start_end_actions (model/action.py lines  *)
(* 919-1128): an action compiled into a start action and an end action       *)

\* the fluent action_occurs(start_<name>) (lines 1117 and 1123)
action_occurs(name) == "action_occurs_start_" \o name

\* free(bodyPart) of the stuck_car problem (main.py)
free(part) == "free_" \o part

\* the two duration-probabilistic actions of main.py and the body part each needs
CompiledNames == <<"push_gas", "push_car">>

BodyPart(name) == IF name = "push_gas" THEN "legs" ELSE "hands"

\* the problem's initial values: action_occurs defaults to False (line 1120),
\* the body parts are free
CompiledInitialValues ==
    [fl \in {action_occurs(CompiledNames[i]) : i \in 1..Len(CompiledNames)}
            \cup {free(BodyPart(CompiledNames[i])) : i \in 1..Len(CompiledNames)}
        |-> fl \notin {action_occurs(CompiledNames[i]) : i \in 1..Len(CompiledNames)}]

\* TypeError of the interpreter: a call with the wrong number of arguments
ArityError == "TypeError"

\* an instantaneous action: its preconditions and its effects with their bookkeeping
NewInstantaneous == [_preconditions |-> <<>>, builder |-> NewAction]

\* DurationProbabilisticAction.__init__ (lines 934-944)
NewDurationProbabilisticAction(name) == [name |-> name, start |-> NewInstantaneous, end |-> NewInstantaneous, raised |-> "none"]

\* InstantaneousAction.add_precondition (lines 273-303)
add_precondition(a, precondition) ==
    IF precondition = TRUE_EXP \/ (\E i \in 1..Len(a._preconditions) : a._preconditions[i] = precondition)
    THEN a
    ELSE [a EXCEPT !._preconditions = Append(@, precondition)]

\* InstantaneousAction.add_effect on a well-typed effect
add_effect(a, fluent, value, condition) ==
    [a EXCEPT !.builder = add_effect_instance(@, Effect(fluent, value, condition, "ASSIGN"))]

\* DurationProbabilisticAction.add_precondition (lines 1006-1020)
add_start_precondition(a, precondition) ==
    [a EXCEPT !.start = add_precondition(@, precondition)]

\* DurationProbabilisticAction.add_during_activation_effect (lines 1022-1037)
add_during_activation_effect(a, fluent, value, condition) ==
    [a EXCEPT !.start = add_effect(@, fluent, value, condition)]

\* the number of arguments add_end_precondition takes besides self (line 1039)
EndPreconditionParameters == 1

\* DurationProbabilisticAction.add_end_precondition (lines 1039-1053), called
\* with a list of arguments
add_end_precondition(a, arguments) ==
    IF Len(arguments) # EndPreconditionParameters
    THEN [a EXCEPT !.raised = ArityError]
    ELSE [a EXCEPT !.end = add_precondition(@, arguments[1])]

\* DurationProbabilisticAction.add_effect (lines 1054-1069)
add_end_effect(a, fluent, value, condition) ==
    [a EXCEPT !.end = add_effect(@, fluent, value, condition)]

\* add_object_condition_effect of main.py (lines 5-8)
add_object_condition_effect(a, object) ==
    add_end_effect(
        add_during_activation_effect(add_start_precondition(a, FluentExp(object)),
                                     object, BoolC(FALSE), TRUE_EXP),
        object, BoolC(TRUE), TRUE_EXP)

\* line 1127, reached when line 1126 raised nothing
EndOfBody(r) ==
    IF r.raised # "none"
    THEN r
    ELSE add_end_effect(r, action_occurs(r.name), BoolC(FALSE), TRUE_EXP)

\* the body of the loop of start_end_actions for one action (lines 1123-1128)
CompileOne(a) ==
    EndOfBody(
        add_end_precondition(
            add_during_activation_effect(a, action_occurs(a.name), BoolC(TRUE), TRUE_EXP),
            <<FluentExp(action_occurs(a.name)), BoolC(TRUE)>>))

\* the loop of start_end_actions, from the i-th action on: an error raised in
\* the body ends the function and leaves the later actions as they were
RECURSIVE CompileFrom(_, _)
CompileFrom(actions, i) ==
    IF i > Len(actions)
    THEN actions
    ELSE IF CompileOne(actions[i]).raised # "none"
         THEN [actions EXCEPT ![i] = CompileOne(actions[i])]
         ELSE CompileFrom([actions EXCEPT ![i] = CompileOne(actions[i])], i + 1)

\* start_end_actions (lines 1115-1128)
start_end_actions(actions) == CompileFrom(actions, 1)

\* push_gas and push_car of main.py (lines 111-125)
DeclaredActions ==
    [i \in 1..Len(CompiledNames) |->
        add_object_condition_effect(NewDurationProbabilisticAction(CompiledNames[i]),
                                    free(BodyPart(CompiledNames[i])))]

\* the event of an instantaneous action without parameters
EventOfAction(a) == Event(a._preconditions, a.builder._effects, a.builder._simulated_effect)

----------------------------------------------------------------------------
(* The driver of the compiled action: it checks and applies the events of    *)
(* start_push_gas and end_push_gas from the initial state                    *)

\* the number of events the driver applies
MaxApplied == 3

\* the start and the end action of every compiled action
Parts == {[of |-> i, part |-> p] : i \in 1..Len(CompiledNames), p \in {"start", "end"}}

PartEvent(actions, part) ==
    IF part.part = "start"
    THEN EventOfAction(actions[part.of].start)
    ELSE EventOfAction(actions[part.of].end)

\* no start or end action
NoPart == [of |-> 0, part |-> "none"]

\* action_occurs(start_X) for the action X the part belongs to
OccursOf(part) == action_occurs(CompiledNames[part.of])

ProtocolInit ==
    /\ action = start_end_actions(DeclaredActions)
    /\ states = <<CompiledInitialValues>>
    /\ event = NoEvent
    /\ last = [op |-> "none", arg |-> 1, part |-> NoPart, res |-> NoneResult]
    /\ simulator = NoSimulator
    /\ iterators = <<>>

DoPartIsApplicable ==
    \E part \in Parts :
        /\ event' = PartEvent(action, part)
        /\ last' = [op |-> "is_applicable", arg |-> Len(states), part |-> part,
                    res |-> IsApplicable(event', states[Len(states)], <<>>)]
        /\ UNCHANGED <<states, action, simulator, iterators>>

DoPartApply ==
    /\ Len(states) <= MaxApplied
    /\ \E part \in Parts :
       \E res \in {Apply(PartEvent(action, part), states[Len(states)], <<>>, <<>>)} :
          /\ event' = PartEvent(action, part)
          /\ last' = [op |-> "apply", arg |-> Len(states), part |-> part, res |-> res]
          /\ states' = Held(states, Len(states), res)
          /\ UNCHANGED <<action, simulator, iterators>>

ProtocolNext == DoPartIsApplicable \/ DoPartApply

ProtocolSpec == ProtocolInit /\ [][ProtocolNext]_vars

\* the last call found the event applicable
FoundApplicable ==
    \/ last.op = "is_applicable" /\ last.res = [kind |-> "bool", value |-> TRUE]
    \/ last.op = "apply" /\ last.res.kind = "state"

\* C22: from the initial state, where action_occurs is False for every
\* action, end_X is applicable only in states where start_X has been applied
\* and end_X has not been applied since, that is where action_occurs(start_X)
\* is True; applying start_X sets action_occurs(start_X) to True and applying
\* end_X resets it to False.
C22_StartEndProtocol ==
    /\ (last.part.part = "end" /\ FoundApplicable) => Given[OccursOf(last.part)]
    /\ (last.op = "apply" /\ last.res.kind = "state")
          => (last.res.values[OccursOf(last.part)] <=> (last.part.part = "start"))

\* start_end_actions returns without raising
C22_CompilationCompletes ==
    \A i \in 1..Len(action) : action[i].raised = "none"

\* applying the start action that line 1125 was run for sets its action_occurs
C22_StartSetsOccurs ==
    (last.op = "apply" /\ last.part = [of |-> 1, part |-> "start"] /\ last.res.kind = "state")
        => last.res.values[OccursOf(last.part)]

----------------------------------------------------------------------------
(* get_events: the list returned for a grounding *)

\* the events of a grounding: one for a grounded action, none for None
EventsOfGrounding(key) ==
    IF ground_action(key.action, key.params) = None
    THEN <<>>
    ELSE <<EventOf(ground_action(key.action, key.params))>>

\* C23: for an InstantaneousAction of the problem get_events returns a list
\* with exactly one event, made of the conditions, effects and simulated effect
\* of the grounded action, when the Grounder returns a grounded action, and the
\* empty list when it returns None; the list never has more than one element
\* and the result, empty or not, is in the cache after the call.
C23_OneEventOrNone ==
    (last.op = "get_events" /\ IsInstantaneousAction(last.key.action))
        => /\ last.res = [kind |-> "events", list |-> EventsOfGrounding(last.key)]
           /\ Len(last.res.list) <= 1
           /\ Cached(simulator._events, last.key)
           /\ CacheGet(simulator._events, last.key) = last.res.list

\* a repeated get_events for a grounding the Grounder answers with None has
\* found the empty list in the cache
C23_Witness ==
    /\ last.op = "get_events"
    /\ last.cached
    /\ ground_action(last.key.action, last.key.params) = None
    /\ last.res = [kind |-> "events", list |-> <<>>]

----------------------------------------------------------------------------
(* get_events with an action of another problem *)

\* C24: get_events with an action that does not belong to the simulator's
\* problem raises a usage error immediately: the Grounder is not asked, no
\* event is created and the event cache is unchanged.
C24_ForeignActionRaises ==
    [][(last'.op = "get_events" /\ last'.key.action \notin ProblemActions)
          => /\ last'.res = [kind |-> "raise", error |-> "UPUsageError"]
             /\ last'.grounded = <<>>
             /\ simulator' = simulator]_vars

\* get_events was called with a foreign action on a simulator whose cache
\* holds events
C24_Witness ==
    /\ last.op = "get_events"
    /\ last.key \in ForeignKeys
    /\ last.res.kind = "raise"
    /\ simulator._events # <<>>

----------------------------------------------------------------------------
(* Type errors of the builder *)

\* the value is not of the type of the fluent
Mistyped(effect) == is_int_type(effect.fluent) # (effect.value.tag = "int")

\* an increase or decrease of a fluent that is not numeric
IncDecOfNonNumeric(effect) == effect.kind \in IncDec /\ ~is_int_type(effect.fluent)

\* C25: add_effect with a value whose type is incompatible with the fluent's
\* type, and add_increase_effect / add_decrease_effect on a fluent that is not
\* numeric, raise a type error and leave the effects of the action and its
\* conflict bookkeeping unchanged.
C25_TypeErrorLeavesActionUnchanged ==
    [][(/\ last'.op \in AddOps
        /\ Mistyped(last'.effect) \/ IncDecOfNonNumeric(last'.effect))
          => /\ last'.raised = TypeError
             /\ action' = action]_vars

\* an increase of the boolean fluent bf was refused with a type error on an
\* action that has effects and bookkeeping
C25_Witness ==
    /\ last.op = "add_increase_effect"
    /\ last.effect.fluent = "bf"
    /\ last.effect.value.tag = "bool"
    /\ last.raised = TypeError
    /\ action._effects # <<>>
    /\ action._fluents_inc_dec # {}

----------------------------------------------------------------------------
(* SequentialSimulator.__init__ and supported_kind *)

\* SequentialSimulator.supported_kind (lines 406-434)
SupportedKind ==
    {"ACTION_BASED", "FLAT_TYPING", "HIERARCHICAL_TYPING", "CONTINUOUS_NUMBERS",
     "DISCRETE_NUMBERS", "BOUNDED_TYPES", "SIMPLE_NUMERIC_PLANNING",
     "GENERAL_NUMERIC_PLANNING", "NUMERIC_FLUENTS", "OBJECT_FLUENTS",
     "NEGATIVE_CONDITIONS", "DISJUNCTIVE_CONDITIONS", "EQUALITY",
     "EXISTENTIAL_CONDITIONS", "UNIVERSAL_CONDITIONS", "CONDITIONAL_EFFECTS",
     "INCREASE_EFFECTS", "DECREASE_EFFECTS", "SIMULATED_EFFECTS", "ACTIONS_COST",
     "PLAN_LENGTH", "OVERSUBSCRIPTION", "TEMPORAL_OVERSUBSCRIPTION", "MAKESPAN",
     "FINAL_VALUE"}

\* SequentialSimulator.supports (lines 436-438)
supports(problem_kind) == problem_kind \subseteq SupportedKind

\* Grounder.supports: the Grounder grounds what the simulator supports, and
\* temporal problems as well
GrounderSupports(problem_kind) == problem_kind \subseteq (SupportedKind \cup {"CONTINUOUS_TIME"})

\* the features of the problems given to the constructor: those of the bounded
\* counters and simulated effects, of a temporal problem (matchcellar) and of
\* a contingent one
KindFeatures == {"ACTION_BASED", "BOUNDED_TYPES", "SIMULATED_EFFECTS", "CONTINUOUS_TIME", "CONTINGENT"}

MixinMessage == "We cannot establish whether the simulator is able to handle this problem"

GrounderMessage == "The Grounder used in the simulator does not support the given problem"

UsageError(msg, warned) == [kind |-> "raise", error |-> "UPUsageError", msg |-> msg, warned |-> warned]

Constructed(warned) == [kind |-> "simulator", warned |-> warned]

\* SimulatorMixin.__init__: the check of the problem kind against supports
MixinInit(problem_kind, error_on_failed_checks) ==
    IF supports(problem_kind)
    THEN Constructed(<<>>)
    ELSE IF error_on_failed_checks
         THEN UsageError(MixinMessage, <<>>)
         ELSE Constructed(<<MixinMessage>>)

\* bug: an unsupported problem makes the Grounder check raise whatever the flag is
GrounderCheckAlwaysRaising(problem_kind, error_on_failed_checks, warned) ==
    IF ~GrounderSupports(problem_kind)
    THEN UsageError(GrounderMessage, warned)
    ELSE Constructed(warned)

\* the check of the Grounder in __init__ (lines 69-75)
GrounderCheck(problem_kind, error_on_failed_checks, warned) ==
    IF ~GrounderSupports(problem_kind)
    THEN IF error_on_failed_checks
         THEN UsageError(GrounderMessage, warned)
         ELSE Constructed(Append(warned, GrounderMessage))
    ELSE Constructed(warned)

\* the outcome of the mixin's check passed on to the Grounder check
AfterMixin(problem_kind, error_on_failed_checks, m) ==
    IF m.kind = "raise"
    THEN m
    ELSE GrounderCheck(problem_kind, error_on_failed_checks, m.warned)

\* SequentialSimulator.__init__ (lines 62-85): it raises, or returns with the
\* warnings it gave
SequentialSimulatorInit(problem_kind, error_on_failed_checks) ==
    AfterMixin(problem_kind, error_on_failed_checks,
               MixinInit(problem_kind, error_on_failed_checks))

----------------------------------------------------------------------------
(* The driver of the constructor: it constructs simulators for problems of   *)
(* several kinds and asks the constructed one for events                     *)

ConstructInit ==
    /\ event = NoEvent
    /\ states = <<LinearGraphInitialValues(MaxLocation)>>
    /\ last = NoCall
    /\ action = NoAction
    /\ simulator = NoSimulator
    /\ iterators = <<>>

DoConstruct ==
    \E problem_kind \in SUBSET KindFeatures, error_on_failed_checks \in BOOLEAN :
    \E r \in {SequentialSimulatorInit(problem_kind, error_on_failed_checks)} :
        /\ last' = [op |-> "SequentialSimulator", problem_kind |-> problem_kind,
                    error_on_failed_checks |-> error_on_failed_checks, res |-> r]
        /\ simulator' = IF r.kind = "raise" THEN simulator ELSE NewSimulator(MaxLocation)
        /\ UNCHANGED <<event, states, action, iterators>>

DoGetEventsOfConstructed == simulator # NoSimulator /\ DoGetEvents

ConstructNext == DoConstruct \/ DoGetEventsOfConstructed

ConstructSpec == ConstructInit /\ [][ConstructNext]_vars

----------------------------------------------------------------------------
(* The bound check and the resolved value *)

\* the effects of the event resolve without conflict in the state
EffectsResolve(ev, state) == ApplyEffects(ev.effects, 1, state, EmptyMap, {}).kind = "ok"

\* C27: an event whose conditions hold and in which the value of every bounded
\* fluent after all of its active effects, and every value returned for one by
\* the simulated effect, lies within the bounds is applicable, also when
\* several increases and decreases of one fluent pass through an intermediate
\* sum that is out of bounds.
C27_BoundCheckOnResolvedValue ==
    (/\ last.op = "is_applicable"
     /\ ~SomeConditionFalse(event, Given)
     /\ EffectsResolve(event, Given)
     /\ ~SomeBoundViolated(event, Given, last.returned1))
        => last.res = [kind |-> "bool", value |-> TRUE]

\* the same for events with at most one active effect per bounded fluent
C27_SingleEffectPerFluent ==
    (/\ last.op = "is_applicable"
     /\ ~SomeConditionFalse(event, Given)
     /\ EffectsResolve(event, Given)
     /\ ~SomeBoundViolated(event, Given, last.returned1)
     /\ \A fl \in Fluents :
           Cardinality(ActiveOn(event, Given, fl, IncDec \cup {"ASSIGN"})) <= 1)
        => last.res = [kind |-> "bool", value |-> TRUE]

----------------------------------------------------------------------------
(* The merge of the simulated effect's values in apply_unsafe *)

\* the returned value v for the non-boolean fluent f collides with what the
\* effects resolved: a value from an increase or decrease, or another value
CollidesNonBoolean(ev, state, updated, f, v) ==
    /\ ~is_bool_type(f)
    /\ Has(updated, f)
    /\ (ActiveOn(ev, state, f, IncDec) # {} \/ updated[f] # v)

\* the value the fluent f has after the merge of the returned value v
MergedValue(updated, f, v) ==
    IF is_bool_type(f) /\ Has(updated, f) THEN updated[f] \/ v ELSE v

\* what the claim says of a call that resolved `updated` from the effects and
\* got `returned` from the function
MergedAsClaimed(ev, state, updated, returned, res) ==
    IF \E i \in 1..Len(returned) :
          CollidesNonBoolean(ev, state, updated, ev.simulated_effect.fluents[i], returned[i])
    THEN res.kind = "raise" /\ res.msg = MsgDifferentValues
    ELSE /\ res.kind = "state"
         /\ \A i \in 1..Len(returned) :
               res.values[ev.simulated_effect.fluents[i]]
                  = MergedValue(updated, ev.simulated_effect.fluents[i], returned[i])
         /\ \A fl \in DOMAIN updated :
               (\A i \in 1..Len(returned) : ev.simulated_effect.fluents[i] # fl)
                  => res.values[fl] = updated[fl]

\* C28: in apply_unsafe the values returned by the simulated effect's function
\* are merged with the values resolved from all the regular effects: for a
\* non-boolean fluent a collision with a value from an increase or decrease, or
\* with a different assigned value, raises a conflicting-effects error; for a
\* boolean fluent True wins over False in either direction; with no prior
\* value, or an equal assigned value, the returned value is written.
C28_SimulatedValuesMerged ==
    (/\ last.op = "apply_unsafe"
     /\ HasSimulatedEffect(event)
     /\ EffectsResolve(event, Given))
        => MergedAsClaimed(event, Given,
                           ApplyEffects(event.effects, 1, Given, EmptyMap, {}).updated,
                           last.returned2, last.res)

\* the function returned False for bf, which an effect of the event had set
\* to True, and True was kept
C28_Witness ==
    /\ last.op = "apply_unsafe"
    /\ HasSimulatedEffect(event)
    /\ \E i \in 1..Len(last.returned2) :
          /\ event.simulated_effect.fluents[i] = "bf"
          /\ last.returned2[i] = FALSE
    /\ ActiveOn(event, Given, "bf", {"ASSIGN"}) # {}
    /\ last.res.kind = "state"
    /\ last.res.values["bf"] = TRUE

\* the value returned for the counter collided with a decrease of the counter
C28_WitnessCollision ==
    /\ last.op = "apply_unsafe"
    /\ HasSimulatedEffect(event)
    /\ ActiveOn(event, Given, "counter", IncDec) # {}
    /\ last.res.kind = "raise"
    /\ last.res.msg = MsgDifferentValues

----------------------------------------------------------------------------
(* Interleaved iterations on one simulator *)

\* no next() on a generator of get_applicable_events has raised
NoIterationFails ==
    \A i \in 1..Len(iterators) : iterators[i].phase # "raised"

\* C29: when two iterators returned by get_applicable_events, for the same or
\* for different states, are advanced in any interleaving, with get_events
\* calls in between, neither iteration fails and each one, consumed to the
\* end, has yielded exactly the events applicable in its state.
C29_InterleavedIterationSafe ==
    /\ NoIterationFails
    /\ \A i \in 1..Len(iterators) :
          iterators[i].phase = "done"
              => /\ ApplicableEvents(simulator.problem, iterators[i].state)
                        \subseteq Yielded(iterators[i])
                 /\ Yielded(iterators[i])
                        \subseteq ApplicableEvents(simulator.problem, iterators[i].state)

\* an iteration that runs the total grounding neither fails nor, run to its
\* end, misses an event
C29_GroundingIterationSafe ==
    \A i \in 1..Len(iterators) :
        iterators[i].branch = "grounding"
            => /\ iterators[i].phase # "raised"
               /\ iterators[i].phase = "done"
                     => Yielded(iterators[i])
                            = ApplicableEvents(simulator.problem, iterators[i].state)

----------------------------------------------------------------------------
(* The bookkeeping of the builder *)

\* the stored unconditional assignments of non-boolean fluents
StoredAssignments(effects) ==
    {i \in 1..Len(effects) : Unconditional(effects[i]) /\ is_assignment(effects[i])}

\* the fluents with a stored unconditional increase or decrease
StoredIncDec(effects) ==
    {effects[i].fluent : i \in {j \in 1..Len(effects) :
                                   Unconditional(effects[j]) /\ effects[j].kind \in IncDec}}

\* C30: after any sequence of add_effect, add_increase_effect,
\* add_decrease_effect, set_simulated_effect and clear_effects calls, the
\* raising ones included, _fluents_assigned maps exactly the fluents that have
\* a stored unconditional non-boolean assignment to their assigned value, and
\* _fluents_inc_dec is exactly the set of the fluents that have a stored
\* unconditional increase or decrease.
C30_BookkeepingMatchesStoredEffects ==
    /\ DOMAIN action._fluents_assigned
          = {action._effects[i].fluent : i \in StoredAssignments(action._effects)}
    /\ \A i \in StoredAssignments(action._effects) :
          action._fluents_assigned[action._effects[i].fluent] = action._effects[i].value
    /\ action._fluents_inc_dec = StoredIncDec(action._effects)

\* the same for _fluents_assigned alone
C30_AssignedMatchesStoredEffects ==
    /\ DOMAIN action._fluents_assigned
          = {action._effects[i].fluent : i \in StoredAssignments(action._effects)}
    /\ \A i \in StoredAssignments(action._effects) :
          action._fluents_assigned[action._effects[i].fluent] = action._effects[i].value

----------------------------------------------------------------------------
(* The action classes of model/action.py as objects: InstantaneousAction,   *)
(* ProbabilisticAction, FixDurationStartAction and                          *)
(* DurationProbabilisticAction, held in a heap and referred to by their     *)
(* position in it                                                           *)

\* None, where a reference to an action is expected
NoRef == 0

\* the _parameters argument: None, or a mapping given as its items in order
GivenMapping(items) == [given |-> TRUE, items |-> items]

NoMapping == [given |-> FALSE, items |-> <<>>]

\* no keyword arguments
NoKeywords == <<>>

\* Action.__init__ (lines 42-69): the parameters come from the mapping if
\* there is one, from the keyword arguments otherwise
ActionInit(_parameters, kwargs) ==
    IF _parameters.given THEN _parameters.items ELSE kwargs

\* InstantaneousAction.__init__ (lines 148-164) and the fields its subclasses
\* add: _probabilistic_effects (line 745), _end_action (line 864),
\* _start_action and _end_action of DurationProbabilisticAction (lines 942-943)
ActionObject(class, _name, _parameters, kwargs) ==
    [class |-> class, _name |-> _name,
     _parameters |-> ActionInit(_parameters, kwargs),
     _preconditions |-> <<>>, builder |-> NewAction,
     _probabilistic_effects |-> <<>>,
     _start_action |-> NoRef, _end_action |-> NoRef]

\* DurationProbabilisticAction.__init__ (lines 934-944): the new action, its
\* start action and its end action, allocated in this order
DurationInit(heap, _name, _parameters, kwargs) ==
    heap \o <<[ActionObject("DurationProbabilisticAction", _name, _parameters, kwargs)
                  EXCEPT !._start_action = Len(heap) + 2, !._end_action = Len(heap) + 3],
              [ActionObject("FixDurationStartAction", "start_" \o _name, _parameters, NoKeywords)
                  EXCEPT !._end_action = Len(heap) + 3],
              ActionObject("ProbabilisticAction", "end_" \o _name, _parameters, NoKeywords)>>

\* InstantaneousAction.clone (lines 219-231) and ProbabilisticAction.clone
\* (lines 771-782): a new object of the same class with copies of the fields
CloneInstantaneous(heap, o) == Append(heap, heap[o])

\* FixDurationStartAction.clone (lines 884-897): the new start action, then
\* the clone of the end action it refers to, which needs one
CloneStart(heap, o) ==
    Append(Append(heap, [heap[o] EXCEPT !._end_action = Len(heap) + 2]),
           heap[heap[o]._end_action])

\* DurationProbabilisticAction.clone (lines 963-970): the new action, the
\* clone of the start action (with the end action that clone makes) and the
\* clone of the end action
CloneDuration(heap, o) ==
    Append(CloneStart(Append(heap, [heap[o] EXCEPT !._start_action = Len(heap) + 2,
                                                   !._end_action = Len(heap) + 4]),
                      heap[o]._start_action),
           heap[heap[o]._end_action])

\* a.clone(): the heap after the call; the clone is at Len(heap) + 1
Clone(heap, o) ==
    CASE heap[o].class = "DurationProbabilisticAction" -> CloneDuration(heap, o)
      [] heap[o].class = "FixDurationStartAction" -> CloneStart(heap, o)
      [] OTHER -> CloneInstantaneous(heap, o)

----------------------------------------------------------------------------
(* The builder calls of DurationProbabilisticAction *)

\* some fluent of the list is written by a stored unconditional effect, by
\* the simulated effect or by a stored probabilistic effect
ProbabilisticEffectConflicts(a, probabilistic_effect) ==
    \E i \in 1..Len(probabilistic_effect.fluents) :
        \/ Has(a.builder._fluents_assigned, probabilistic_effect.fluents[i])
        \/ probabilistic_effect.fluents[i] \in a.builder._fluents_inc_dec
        \/ InSimulatedEffect(probabilistic_effect.fluents[i], a.builder._simulated_effect)
        \/ \E j \in 1..Len(a._probabilistic_effects) :
              \E k \in 1..Len(a._probabilistic_effects[j].fluents) :
                  a._probabilistic_effects[j].fluents[k] = probabilistic_effect.fluents[i]

\* ProbabilisticAction.add_probabilistic_effect (lines 784-833) on fluent
\* expressions: the conflict check, then the append
add_probabilistic_effect(a, fluents, function) ==
    IF ProbabilisticEffectConflicts(a, ProbabilisticEffect(fluents, function))
    THEN a
    ELSE [a EXCEPT !._probabilistic_effects = Append(@, ProbabilisticEffect(fluents, function))]

\* the call changes the start action of d
OnStart(heap, d, changed) == [heap EXCEPT ![heap[d]._start_action] = changed]

\* the call changes the end action of d
OnEnd(heap, d, changed) == [heap EXCEPT ![heap[d]._end_action] = changed]

\* bug: the end precondition is added to the start action
DurationAddEndPreconditionOnStart(heap, d, precondition) ==
    OnStart(heap, d, add_precondition(heap[heap[d]._start_action], precondition))

\* DurationProbabilisticAction.add_precondition (lines 1006-1020)
DurationAddPrecondition(heap, d, precondition) ==
    OnStart(heap, d, add_precondition(heap[heap[d]._start_action], precondition))

\* DurationProbabilisticAction.add_during_activation_effect (lines 1022-1037)
DurationAddDuringActivationEffect(heap, d, fluent, value, condition) ==
    OnStart(heap, d, add_effect(heap[heap[d]._start_action], fluent, value, condition))

\* DurationProbabilisticAction.add_end_precondition (lines 1039-1053)
DurationAddEndPrecondition(heap, d, precondition) ==
    OnEnd(heap, d, add_precondition(heap[heap[d]._end_action], precondition))

\* DurationProbabilisticAction.add_effect (lines 1054-1069)
DurationAddEffect(heap, d, fluent, value, condition) ==
    OnEnd(heap, d, add_effect(heap[heap[d]._end_action], fluent, value, condition))

\* DurationProbabilisticAction.add_probabilistic_effect (lines 1071-1088)
DurationAddProbabilisticEffect(heap, d, fluents, function) ==
    OnEnd(heap, d, add_probabilistic_effect(heap[heap[d]._end_action], fluents, function))

----------------------------------------------------------------------------
(* Equality and hash of actions *)

\* set(list)
SetOf(list) == {list[i] : i \in 1..Len(list)}

\* the values an == expression evaluates to, and the error it may raise
PyTrue == "True"

PyFalse == "False"

PyNone == "None"

NotImplementedError == "NotImplementedError"

PyBool(b) == IF b THEN PyTrue ELSE PyFalse

\* isinstance(a, InstantaneousAction)
IsInstantaneous(a) ==
    a.class \in {"InstantaneousAction", "ProbabilisticAction", "FixDurationStartAction"}

\* InstantaneousAction.__eq__ (lines 192-206); the environment is the same
\* for every action
InstantaneousEq(a, oth) ==
    /\ IsInstantaneous(oth)
    /\ a._name = oth._name
    /\ a._parameters = oth._parameters
    /\ SetOf(a._preconditions) = SetOf(oth._preconditions)
    /\ SetOf(a.builder._effects) = SetOf(oth.builder._effects)
    /\ a.builder._simulated_effect = oth.builder._simulated_effect

\* ProbabilisticAction.__eq__ (lines 758-763): the comparison is evaluated
\* and its value dropped, the method returns None
ProbabilisticEq(a, oth) ==
    IF oth.class = "ProbabilisticAction" THEN PyNone ELSE PyFalse

\* FixDurationStartAction.__eq__ (lines 873-879): as above
FixDurationStartEq(a, oth) ==
    IF oth.class = "FixDurationStartAction" THEN PyNone ELSE PyFalse

\* DurationProbabilisticAction.__eq__ (lines 954-958): super().__eq__ is
\* Action.__eq__ (lines 72-73), which raises
DurationEq(a, oth) ==
    IF oth.class = "DurationProbabilisticAction" THEN NotImplementedError ELSE PyFalse

\* a.__eq__(oth) by the class of a
ClassEq(a, oth) ==
    CASE a.class = "InstantaneousAction" -> PyBool(InstantaneousEq(a, oth))
      [] a.class = "ProbabilisticAction" -> ProbabilisticEq(a, oth)
      [] a.class = "FixDurationStartAction" -> FixDurationStartEq(a, oth)
      [] a.class = "DurationProbabilisticAction" -> DurationEq(a, oth)

\* the class of oth is a proper subclass of the class of a
ProperSubclass(a, oth) ==
    /\ a.class = "InstantaneousAction"
    /\ oth.class \in {"ProbabilisticAction", "FixDurationStartAction"}

\* the expression a == oth: the reflected method of a proper subclass is
\* tried first, and no __eq__ here returns NotImplemented
Equals(a, oth) ==
    IF ProperSubclass(a, oth) THEN ClassEq(oth, a) ELSE ClassEq(a, oth)

\* the hashes of names and of expressions, which the interpreter and
\* FNode.__hash__ compute: distinct small numbers, so that the sums below
\* stay within the width of a hash
HashedNames == <<"ASSIGN", "INCREASE", "DECREASE", "f", "counter", "bf", "c1", "c2", "c3", "move", "push", "start_push", "end_push", "car", "Car", "part", "BodyPart">>

HashOfName(name) == CHOOSE i \in 1..Len(HashedNames) : HashedNames[i] = name

HashOfExpression(e) ==
    CASE e.tag = "int" -> 100 + e.i
      [] e.tag = "bool" -> IF e.b THEN 201 ELSE 202
      [] e.tag = "fluent" -> 300 + HashOfName(e.name)

\* Effect.__hash__ (effect.py lines 91-97)
EffectHash(effect) ==
    HashOfName(effect.fluent) + HashOfExpression(effect.value)
        + HashOfExpression(effect.condition) + HashOfName(effect.kind)

\* hash of an item (name, type) of the parameters
ParameterHash(ap) == 400 + HashOfName(ap.name) + HashOfName(ap.type)

\* hash(self._simulated_effect), hash(None) included
SimulatedEffectHash(simulated_effect) ==
    IF simulated_effect = NoSimulatedEffect THEN 500 ELSE 501 + Len(simulated_effect.fluents)

RECURSIVE SumOfParameterHashes(_)
SumOfParameterHashes(list) ==
    IF list = <<>> THEN 0 ELSE ParameterHash(Head(list)) + SumOfParameterHashes(Tail(list))

RECURSIVE SumOfExpressionHashes(_)
SumOfExpressionHashes(list) ==
    IF list = <<>> THEN 0 ELSE HashOfExpression(Head(list)) + SumOfExpressionHashes(Tail(list))

RECURSIVE SumOfEffectHashes(_)
SumOfEffectHashes(list) ==
    IF list = <<>> THEN 0 ELSE EffectHash(Head(list)) + SumOfEffectHashes(Tail(list))

\* InstantaneousAction.__hash__ (lines 208-217): one summand for every item
\* of the lists, repeated items included
InstantaneousHash(a) ==
    HashOfName(a._name) + SumOfParameterHashes(a._parameters)
        + SumOfExpressionHashes(a._preconditions)
        + SumOfEffectHashes(a.builder._effects)
        + SimulatedEffectHash(a.builder._simulated_effect)

----------------------------------------------------------------------------
(* The driver of the action objects: it constructs one action, clones it    *)
(* and its clones, and calls their builders. The variable action is the     *)
(* heap; event records, for every object, how the driver obtained it        *)

\* the number of builder calls of the driver
MaxCalls == 2

\* the number of clone calls of the driver
MaxClones == 1

ParameterLists == {<<>>, <<[name |-> "car", type |-> "Car"], [name |-> "part", type |-> "BodyPart"]>>}

ObjectPreconditions == {TRUE_EXP, FluentExp("c1")}

ObjectEffects == {Effect("f", IntC(1), TRUE_EXP, "ASSIGN"), Effect("f", IntC(2), TRUE_EXP, "ASSIGN")}

ObjectProbabilisticEffects == {ProbabilisticEffect(<<"f">>, "sample"), ProbabilisticEffect(<<"bf">>, "sample")}

\* what the driver declared on an action through its builder calls, in the
\* order of the calls that returned, and the action it was cloned from
NothingDeclared ==
    [origin |-> NoRef, parameters |-> <<>>, preconditions |-> {}, during |-> <<>>,
     end_preconditions |-> {}, effects |-> <<>>, probabilistic |-> <<>>]

Declared(parameters) == [NothingDeclared EXCEPT !.parameters = parameters]

\* the last call, its receiver, the object it returned, the error it raised
\* and the number of builder calls so far
ObjectCall(op, target, other, result, calls) == [op |-> op, target |-> target, other |-> other, result |-> result, calls |-> calls]

ObjectInit ==
    /\ action = <<>>
    /\ event = <<>>
    /\ last = ObjectCall("none", NoRef, NoRef, "none", 0)
    /\ states = <<InitialValues>>
    /\ simulator = NoSimulator
    /\ iterators = <<>>

\* the objects of a class
ObjectsOf(class) == {o \in 1..Len(action) : action[o].class = class}

\* DurationProbabilisticAction("push", parameters) and
\* DurationProbabilisticAction("push", **parameters)
DoNewDuration ==
    /\ action = <<>>
    /\ \E parameters \in ParameterLists, mapping \in BOOLEAN :
          /\ action' = DurationInit(action, "push",
                                    IF mapping THEN GivenMapping(parameters) ELSE NoMapping,
                                    IF mapping THEN NoKeywords ELSE parameters)
          /\ event' = event \o <<Declared(parameters), NothingDeclared, NothingDeclared>>
          /\ last' = ObjectCall(IF mapping THEN "new_mapping" ELSE "new_keywords",
                                NoRef, Len(action) + 1, "none", last.calls)
    /\ UNCHANGED <<states, simulator, iterators>>

\* InstantaneousAction("move", parameters)
DoNewInstantaneous ==
    /\ action = <<>>
    /\ \E parameters \in ParameterLists :
          /\ action' = Append(action, ActionObject("InstantaneousAction", "move",
                                                   GivenMapping(parameters), NoKeywords))
          /\ event' = Append(event, Declared(parameters))
          /\ last' = ObjectCall("new_instantaneous", NoRef, Len(action) + 1, "none", last.calls)
    /\ UNCHANGED <<states, simulator, iterators>>

\* the objects the driver obtained from clone()
Clones == {o \in 1..Len(action) : event[o].origin # NoRef}

\* the call on the instantaneous action a raises
EffectRaises(a, effect) ==
    check_conflicting_effects(effect, a.builder._simulated_effect,
                              a.builder._fluents_assigned,
                              a.builder._fluents_inc_dec).raised # "none"

ReturnedOrRaised(raises) == IF raises THEN ConflictingEffects ELSE "none"

\* d.add_precondition(p)
DoDurationAddPrecondition ==
    /\ last.calls < MaxCalls
    /\ \E d \in ObjectsOf("DurationProbabilisticAction"), p \in ObjectPreconditions :
          /\ action' = DurationAddPrecondition(action, d, p)
          /\ event' = [event EXCEPT ![d].preconditions = @ \cup {p}]
          /\ last' = ObjectCall("add_precondition", d, NoRef, "none", last.calls + 1)
    /\ UNCHANGED <<states, simulator, iterators>>

\* d.add_end_precondition(p)
DoDurationAddEndPrecondition ==
    /\ last.calls < MaxCalls
    /\ \E d \in ObjectsOf("DurationProbabilisticAction"), p \in ObjectPreconditions :
          /\ action' = DurationAddEndPrecondition(action, d, p)
          /\ event' = [event EXCEPT ![d].end_preconditions = @ \cup {p}]
          /\ last' = ObjectCall("add_end_precondition", d, NoRef, "none", last.calls + 1)
    /\ UNCHANGED <<states, simulator, iterators>>

\* d.add_during_activation_effect(fluent, value)
DoDurationAddDuringActivationEffect ==
    /\ last.calls < MaxCalls
    /\ \E d \in ObjectsOf("DurationProbabilisticAction"), e \in ObjectEffects :
       \E raises \in {EffectRaises(action[action[d]._start_action], e)} :
          /\ action' = DurationAddDuringActivationEffect(action, d, e.fluent, e.value, e.condition)
          /\ event' = [event EXCEPT ![d].during = IF raises THEN @ ELSE Append(@, e)]
          /\ last' = ObjectCall("add_during_activation_effect", d, NoRef,
                                ReturnedOrRaised(raises), last.calls + 1)
    /\ UNCHANGED <<states, simulator, iterators>>

\* d.add_effect(fluent, value)
DoDurationAddEffect ==
    /\ last.calls < MaxCalls
    /\ \E d \in ObjectsOf("DurationProbabilisticAction"), e \in ObjectEffects :
       \E raises \in {EffectRaises(action[action[d]._end_action], e)} :
          /\ action' = DurationAddEffect(action, d, e.fluent, e.value, e.condition)
          /\ event' = [event EXCEPT ![d].effects = IF raises THEN @ ELSE Append(@, e)]
          /\ last' = ObjectCall("add_effect", d, NoRef, ReturnedOrRaised(raises), last.calls + 1)
    /\ UNCHANGED <<states, simulator, iterators>>

\* d.add_probabilistic_effect(fluents, function)
DoDurationAddProbabilisticEffect ==
    /\ last.calls < MaxCalls
    /\ \E d \in ObjectsOf("DurationProbabilisticAction"), pe \in ObjectProbabilisticEffects :
       \E raises \in {ProbabilisticEffectConflicts(action[action[d]._end_action], pe)} :
          /\ action' = DurationAddProbabilisticEffect(action, d, pe.fluents, pe.function)
          /\ event' = [event EXCEPT ![d].probabilistic = IF raises THEN @ ELSE Append(@, pe)]
          /\ last' = ObjectCall("add_probabilistic_effect", d, NoRef,
                                ReturnedOrRaised(raises), last.calls + 1)
    /\ UNCHANGED <<states, simulator, iterators>>

\* a.add_precondition(p) on an InstantaneousAction
DoInstantaneousAddPrecondition ==
    /\ last.calls < MaxCalls
    /\ \E a \in ObjectsOf("InstantaneousAction"), p \in ObjectPreconditions :
          /\ action' = [action EXCEPT ![a] = add_precondition(@, p)]
          /\ event' = [event EXCEPT ![a].preconditions = @ \cup {p}]
          /\ last' = ObjectCall("add_precondition", a, NoRef, "none", last.calls + 1)
    /\ UNCHANGED <<states, simulator, iterators>>

\* a.add_effect(fluent, value) on an InstantaneousAction
DoInstantaneousAddEffect ==
    /\ last.calls < MaxCalls
    /\ \E a \in ObjectsOf("InstantaneousAction"), e \in ObjectEffects :
       \E raises \in {EffectRaises(action[a], e)} :
          /\ action' = [action EXCEPT ![a] = add_effect(@, e.fluent, e.value, e.condition)]
          /\ event' = [event EXCEPT ![a].effects = IF raises THEN @ ELSE Append(@, e)]
          /\ last' = ObjectCall("add_effect", a, NoRef, ReturnedOrRaised(raises), last.calls + 1)
    /\ UNCHANGED <<states, simulator, iterators>>

\* the records of the objects a clone allocates: the clone's origin is o, and
\* what was declared on o was declared on the clone
RECURSIVE Origins(_, _, _)
Origins(records, heap, from) ==
    IF from > Len(heap)
    THEN records
    ELSE Origins(Append(records, NothingDeclared), heap, from + 1)

\* a.clone()
DoClone ==
    \E o \in 1..Len(action) :
        /\ Cardinality(Clones) < MaxClones
        /\ action' = Clone(action, o)
        /\ event' = Origins(Append(event, [event[o] EXCEPT !.origin = o]),
                            action', Len(action) + 2)
        /\ last' = ObjectCall("clone", o, Len(action) + 1, "none", last.calls)
        /\ UNCHANGED <<states, simulator, iterators>>

ObjectNext ==
    \/ DoNewDuration
    \/ DoNewInstantaneous
    \/ DoDurationAddPrecondition
    \/ DoDurationAddEndPrecondition
    \/ DoDurationAddDuringActivationEffect
    \/ DoDurationAddEffect
    \/ DoDurationAddProbabilisticEffect
    \/ DoInstantaneousAddPrecondition
    \/ DoInstantaneousAddEffect
    \/ DoClone

ObjectSpec == ObjectInit /\ [][ObjectNext]_vars

----------------------------------------------------------------------------
(* C31 *)

StartCalls == {"add_precondition", "add_during_activation_effect"}

EndCalls == {"add_end_precondition", "add_effect", "add_probabilistic_effect"}

\* the step is a builder call on a DurationProbabilisticAction
DurationCalled ==
    /\ last'.op \in StartCalls \cup EndCalls
    /\ action[last'.target].class = "DurationProbabilisticAction"

\* the half of d the call is routed to
RoutedHalf(d, op) ==
    IF op \in StartCalls THEN action[d]._start_action ELSE action[d]._end_action

\* the call left every object but the half it is routed to as it was
OtherObjectsUnchanged ==
    /\ Len(action') = Len(action)
    /\ \A o \in 1..Len(action) :
          o # RoutedHalf(last'.target, last'.op) => action'[o] = action[o]

\* the call changed nothing but the part of the half that it declares
OtherPartsUnchanged(before, after, op) ==
    /\ op # "add_probabilistic_effect"
          => after._probabilistic_effects = before._probabilistic_effects
    /\ op \in {"add_precondition", "add_end_precondition"}
          => after.builder = before.builder
    /\ op \notin {"add_precondition", "add_end_precondition"}
          => after._preconditions = before._preconditions
    /\ after._name = before._name /\ after._parameters = before._parameters

\* the start action of d holds what was declared for it, the end action too
HoldsDeclared(heap, d, declared) ==
    /\ SetOf(heap[heap[d]._start_action]._preconditions) = declared.preconditions \ {TRUE_EXP}
    /\ heap[heap[d]._start_action].builder._effects = declared.during
    /\ heap[heap[d]._start_action]._probabilistic_effects = <<>>
    /\ SetOf(heap[heap[d]._end_action]._preconditions) = declared.end_preconditions \ {TRUE_EXP}
    /\ heap[heap[d]._end_action].builder._effects = declared.effects
    /\ heap[heap[d]._end_action]._probabilistic_effects = declared.probabilistic

\* C31: add_precondition and add_during_activation_effect change only the
\* start action of a DurationProbabilisticAction (its preconditions, its
\* effects), add_end_precondition, add_effect and add_probabilistic_effect
\* change only its end action, and after any sequence of such calls the start
\* action holds exactly the declared preconditions and during-activation
\* effects and the end action exactly the declared end preconditions, effects
\* and probabilistic effects (a declaration is a call that returns; the
\* precondition True declares nothing).
C31_BuilderCallsRouted ==
    [][/\ DurationCalled
          => /\ OtherObjectsUnchanged
             /\ OtherPartsUnchanged(action[RoutedHalf(last'.target, last'.op)],
                                    action'[RoutedHalf(last'.target, last'.op)], last'.op)
       /\ \A d \in 1..Len(action') :
             action'[d].class = "DurationProbabilisticAction"
                => HoldsDeclared(action', d, event'[d])]_vars

\* an action with a start precondition, a during-activation effect, an end
\* precondition and an end effect or a probabilistic effect has been built
C31_Witness ==
    \E d \in ObjectsOf("DurationProbabilisticAction") :
        /\ event[d].preconditions \ {TRUE_EXP} # {}
        /\ event[d].effects # <<>> \/ event[d].probabilistic # <<>>
        /\ HoldsDeclared(action, d, event[d])

\* a call on a DurationProbabilisticAction raised a conflict
C31_WitnessRaised ==
    /\ last.result = ConflictingEffects
    /\ last.target \in ObjectsOf("DurationProbabilisticAction")

----------------------------------------------------------------------------
(* C32 *)

\* d is compiled into start_<name> and end_<name>, both with the parameters
\* that were declared for d
CompiledWithParameters(heap, d, parameters) ==
    /\ heap[d]._parameters = parameters
    /\ heap[heap[d]._start_action].class = "FixDurationStartAction"
    /\ heap[heap[d]._start_action]._name = "start_" \o heap[d]._name
    /\ heap[heap[d]._start_action]._parameters = parameters
    /\ heap[heap[d]._end_action].class = "ProbabilisticAction"
    /\ heap[heap[d]._end_action]._name = "end_" \o heap[d]._name
    /\ heap[heap[d]._end_action]._parameters = parameters

\* C32: constructing DurationProbabilisticAction(name, parameters) compiles
\* it into a start action named 'start_' + name and an end action named
\* 'end_' + name that both have the parameter list (names, types, order) of
\* the declared action, whether the parameters are given as a mapping or as
\* keyword arguments.
C32_CompiledHalvesKeepParameters ==
    last.op \in {"new_mapping", "new_keywords"}
        => CompiledWithParameters(action, last.other, event[last.other].parameters)

\* the same when the parameters are given as a mapping
C32_MappingKeepsParameters ==
    last.op = "new_mapping"
        => CompiledWithParameters(action, last.other, event[last.other].parameters)

\* an action with parameters has been constructed from a mapping
C32_MappingConstructed ==
    last.op = "new_mapping" /\ event[last.other].parameters # <<>>

----------------------------------------------------------------------------
(* C33 *)

\* d.start_action().end_action() is d.end_action()
Linked(heap, d) == heap[heap[d]._start_action]._end_action = heap[d]._end_action

\* C33: for every DurationProbabilisticAction d, obtained by construction or
\* by any number of clone() and builder calls, d.start_action().end_action()
\* is the same object as d.end_action(), so that an effect added through d to
\* the end action is visible through the link of the start action.
C33_StartEndLinked ==
    \A d \in ObjectsOf("DurationProbabilisticAction") :
        /\ Linked(action, d)
        /\ action[action[action[d]._start_action]._end_action].builder._effects
              = action[action[d]._end_action].builder._effects

\* the same for the actions that are not clones
C33_ConstructedLinked ==
    \A d \in ObjectsOf("DurationProbabilisticAction") :
        event[d].origin = NoRef => Linked(action, d)

\* a constructed action has been given an end effect
C33_ConstructedWithEffect ==
    \E d \in ObjectsOf("DurationProbabilisticAction") :
        event[d].origin = NoRef /\ event[d].effects # <<>>

----------------------------------------------------------------------------
(* C34 *)

\* the clone c holds a precondition or an effect that the action o lacks
HoldsMoreThan(c, o) ==
    \/ SetOf(c._preconditions) \ SetOf(o._preconditions) # {}
    \/ SetOf(c.builder._effects) \ SetOf(o.builder._effects) # {}

\* clone round trip and equality on the objects of the given classes
CloneRoundTrip(classes) ==
    /\ (last.op = "clone" /\ action[last.target].class \in classes)
          => Equals(action[last.other], action[last.target]) = PyTrue
    /\ \A a \in 1..Len(action) :
          action[a].class \in classes => Equals(action[a], action[a]) = PyTrue
    /\ \A a \in 1..Len(action), b \in 1..Len(action) :
          (action[a].class \in classes /\ action[b].class = action[a].class)
             => Equals(action[a], action[b]) = Equals(action[b], action[a])
    /\ \A c \in Clones :
          (action[c].class \in classes /\ HoldsMoreThan(action[c], action[event[c].origin]))
             => Equals(action[c], action[event[c].origin]) = PyFalse

\* C34: for every InstantaneousAction, ProbabilisticAction,
\* FixDurationStartAction and DurationProbabilisticAction a, a.clone() == a
\* evaluates to True, equality of two actions of the same class is reflexive
\* and symmetric, and it becomes False once an effect or a precondition that
\* the original lacks is added to the clone.
C34_CloneRoundTrip ==
    CloneRoundTrip({"InstantaneousAction", "ProbabilisticAction",
                    "FixDurationStartAction", "DurationProbabilisticAction"})

\* the same for the InstantaneousActions alone
C34_InstantaneousCloneRoundTrip == CloneRoundTrip({"InstantaneousAction"})

\* the clone of an InstantaneousAction has been given an effect the original lacks
C34_InstantaneousCloneChanged ==
    \E c \in Clones :
        /\ action[c].class = "InstantaneousAction"
        /\ HoldsMoreThan(action[c], action[event[c].origin])

----------------------------------------------------------------------------
(* C35 *)

\* no effect is stored twice
NoRepeatedEffect(a) ==
    \A i \in 1..Len(a.builder._effects), j \in 1..Len(a.builder._effects) :
        a.builder._effects[i] = a.builder._effects[j] => i = j

\* C35: for any two InstantaneousActions a and b built by any sequences of
\* add_precondition and add_effect calls, the same effect added more than
\* once included, a == b implies hash(a) == hash(b).
C35_EqualActionsHashEqually ==
    \A a \in ObjectsOf("InstantaneousAction"), b \in ObjectsOf("InstantaneousAction") :
        Equals(action[a], action[b]) = PyTrue
            => InstantaneousHash(action[a]) = InstantaneousHash(action[b])

\* the same for the actions that store no effect twice
C35_HashEquallyWithoutRepetition ==
    \A a \in ObjectsOf("InstantaneousAction"), b \in ObjectsOf("InstantaneousAction") :
        (/\ Equals(action[a], action[b]) = PyTrue
         /\ NoRepeatedEffect(action[a])
         /\ NoRepeatedEffect(action[b]))
            => InstantaneousHash(action[a]) = InstantaneousHash(action[b])

\* two equal InstantaneousActions with an effect each
C35_EqualActionsBuilt ==
    \E a \in ObjectsOf("InstantaneousAction"), b \in ObjectsOf("InstantaneousAction") :
        /\ a # b
        /\ Equals(action[a], action[b]) = PyTrue
        /\ action[a].builder._effects # <<>>

----------------------------------------------------------------------------
(* C36 *)

\* what get_unsatisfied_conditions gives on the event and the state of the
\* last call, with the flag as given and the callback returning what it
\* returned to the last call
WithFlag(early_termination) ==
    GetUnsatisfiedConditions(event, Given, early_termination, last.returned1)

\* both lists are empty or both are not, and they start with the same element
SameListVerdict(with, without) ==
    /\ with.list = <<>> <=> without.list = <<>>
    /\ FirstOf(with.list) = FirstOf(without.list)

\* C36: for every event e and state s, get_unsatisfied_conditions(e, s, True)
\* and get_unsatisfied_conditions(e, s, False) either both return an empty
\* list, both return a non-empty list, or both raise a conflicting-effects
\* error, and when both return, the first element is the same (the callback
\* of a simulated effect returning the same values to both calls).
C36_EarlyTerminationKeepsVerdict ==
    last.op = "get_unsatisfied_conditions"
        => /\ WithFlag(TRUE).kind = "raise" <=> WithFlag(FALSE).kind = "raise"
           /\ (WithFlag(TRUE).kind = "list" /\ WithFlag(FALSE).kind = "list")
                 => SameListVerdict(WithFlag(TRUE), WithFlag(FALSE))

\* when both calls return the lists agree, and what raises with the flag
\* raises without it
C36_VerdictKeptWhenBothReturn ==
    last.op = "get_unsatisfied_conditions"
        => /\ WithFlag(TRUE).kind = "raise" => WithFlag(FALSE).kind = "raise"
           /\ (WithFlag(TRUE).kind = "list" /\ WithFlag(FALSE).kind = "list")
                 => SameListVerdict(WithFlag(TRUE), WithFlag(FALSE))

\* a call without the flag raises where the call with the flag finds the
\* event inapplicable
C36_RaisesOnlyWithoutFlag ==
    /\ last.op = "get_unsatisfied_conditions"
    /\ WithFlag(FALSE).kind = "raise"
    /\ WithFlag(TRUE).kind = "list"
    /\ WithFlag(TRUE).list # <<>>

----------------------------------------------------------------------------
(* PlanGenerationResult (engines/results.py) *)

\* PlanGenerationResultStatus (lines 47-74), POSITIVE_OUTCOMES (lines 77-82)
\* and NEGATIVE_OUTCOMES (lines 84-90)
PlanGenerationResultStatus == {"SOLVED_SATISFICING", "SOLVED_OPTIMALLY", "UNSOLVABLE_PROVEN", "UNSOLVABLE_INCOMPLETELY", "TIMEOUT", "MEMOUT", "INTERNAL_ERROR", "UNSUPPORTED_PROBLEM", "INTERMEDIATE"}

POSITIVE_OUTCOMES == {"SOLVED_SATISFICING", "SOLVED_OPTIMALLY"}

NEGATIVE_OUTCOMES == {"UNSOLVABLE_PROVEN", "UNSOLVABLE_INCOMPLETELY", "UNSUPPORTED_PROBLEM"}

\* plan is None
NoPlan == "None"

UPUsageError == "UPUsageError"

\* the fields the dataclass assigns; raised is the error of the construction
ResultFields(status, plan) == [status |-> status, plan |-> plan, raised |-> "none"]

\* PlanGenerationResult.__post__init (lines 138-148)
PostInit(self) ==
    IF self.status \in POSITIVE_OUTCOMES /\ self.plan = NoPlan
    THEN [self EXCEPT !.raised = UPUsageError]
    ELSE IF self.status \in NEGATIVE_OUTCOMES /\ self.plan # NoPlan
         THEN [self EXCEPT !.raised = UPUsageError]
         ELSE self

\* the methods the class PlanGenerationResult defines (lines 138 and 150)
ResultMethods == {"__post__init", "is_definitive_result"}

\* the __init__ that @dataclass generates (line 128): it assigns the fields
\* and calls __post_init__ if the class defines a method of that name
NewPlanGenerationResult(status, plan) ==
    IF "__post_init__" \in ResultMethods
    THEN PostInit(ResultFields(status, plan))
    ELSE ResultFields(status, plan)

\* the arguments of is_definitive_result: none, or a problem with its
\* quality metrics
NoProblem == [given |-> FALSE, quality_metrics |-> 0]

Problem(quality_metrics) == [given |-> TRUE, quality_metrics |-> quality_metrics]

\* PlanGenerationResult.is_definitive_result (lines 150-163)
is_definitive_result(self, args) ==
    \/ self.status = "SOLVED_OPTIMALLY"
    \/ self.status = "UNSOLVABLE_PROVEN"
    \/ /\ args.given /\ args.quality_metrics > 0
       /\ self.status = "SOLVED_SATISFICING"

----------------------------------------------------------------------------
(* The driver of the results: it constructs results, keeps those whose      *)
(* construction returned and asks whether they are definitive               *)

\* the number of results the driver keeps
MaxResults == 2

\* the largest number of quality metrics of a problem
MaxMetrics == 2

Plans == {NoPlan, "plan"}

ResultCall(op, result, args, value) == [op |-> op, result |-> result, args |-> args, value |-> value]

ResultInit ==
    /\ action = <<>>
    /\ last = ResultCall("none", ResultFields("INTERMEDIATE", NoPlan), NoProblem, FALSE)
    /\ event = NoEvent
    /\ states = <<InitialValues>>
    /\ simulator = NoSimulator
    /\ iterators = <<>>

\* PlanGenerationResult(status, plan, engine_name)
DoNewResult ==
    /\ Len(action) < MaxResults
    /\ \E status \in PlanGenerationResultStatus, plan \in Plans :
       \E result \in {NewPlanGenerationResult(status, plan)} :
          /\ action' = IF result.raised = "none" THEN Append(action, result) ELSE action
          /\ last' = ResultCall("new", result, NoProblem, FALSE)
    /\ UNCHANGED <<event, states, simulator, iterators>>

\* result.is_definitive_result() and result.is_definitive_result(problem)
DoIsDefinitiveResult ==
    /\ \E i \in 1..Len(action) :
       \E args \in {NoProblem} \cup {Problem(n) : n \in 0..MaxMetrics} :
          last' = ResultCall("is_definitive_result", action[i], args,
                             is_definitive_result(action[i], args))
    /\ UNCHANGED <<action, event, states, simulator, iterators>>

ResultNext == DoNewResult \/ DoIsDefinitiveResult

ResultSpec == ResultInit /\ [][ResultNext]_vars

----------------------------------------------------------------------------
(* C37 *)

\* the problem has at least one quality metric
HasQualityMetric(args) == args.given /\ args.quality_metrics > 0

\* C37: SOLVED_OPTIMALLY and UNSOLVABLE_PROVEN are always definitive,
\* SOLVED_SATISFICING is definitive exactly when the problem has no quality
\* metric or no problem is given, and every other status is never definitive.
C37_DefinitiveRequiresOptimality ==
    last.op = "is_definitive_result"
        => (last.value <=>
               \/ last.result.status \in {"SOLVED_OPTIMALLY", "UNSOLVABLE_PROVEN"}
               \/ /\ last.result.status = "SOLVED_SATISFICING"
                  /\ ~HasQualityMetric(last.args))

\* for every status but SOLVED_SATISFICING the answer is as claimed
C37_OtherStatuses ==
    (last.op = "is_definitive_result" /\ last.result.status # "SOLVED_SATISFICING")
        => (last.value <=> last.result.status \in {"SOLVED_OPTIMALLY", "UNSOLVABLE_PROVEN"})

----------------------------------------------------------------------------
(* C38 *)

\* plan and status agree
Consistent(result) ==
    /\ result.status \in POSITIVE_OUTCOMES => result.plan # NoPlan
    /\ result.status \in NEGATIVE_OUTCOMES => result.plan = NoPlan

\* C38: every constructed result with a status in POSITIVE_OUTCOMES has a
\* plan and every constructed result with a status in NEGATIVE_OUTCOMES has
\* plan None; constructing a result that violates this raises a usage error.
C38_PlanAndStatusConsistent ==
    /\ \A i \in 1..Len(action) : Consistent(action[i])
    /\ last.op = "new" => (last.result.raised = UPUsageError <=> ~Consistent(last.result))

\* the check of __post__init itself raises exactly for the results whose plan
\* and status disagree
C38_CheckRaisesWhenCalled ==
    last.op = "new" => (PostInit(last.result).raised = UPUsageError <=> ~Consistent(last.result))

====
